---- MODULE Spec2Model ----
(***************************************************************************)
(* Documentation synthesis of generator-cli: DocumentGenerationService     *)
(* walks a parsed OpenAPI document, produces the ApiDocumentation and       *)
(* ModelDocumentation record arrays and writes them to apis.xlsx and        *)
(* models.xlsx (specification Spec); ConfigurationService sets and          *)
(* initializes the configuration file (specification ConfigSpec).           *)
(*                                                                          *)
(* Strings the code inspects character by character (names, paths, method  *)
(* keys, status codes) are sequences of one-character strings; strings the *)
(* code only compares as a whole (schema types, parameter locations) are    *)
(* TLA+ strings.  An absent optional value (undefined) is the empty         *)
(* sequence; an optional nested object is a sequence of length 0 or 1.      *)
(***************************************************************************)
EXTENDS Integers, Sequences, FiniteSets, TLC

(***************************************************************************)
(* Characters and case conversion (String.prototype.toLowerCase /           *)
(* toUpperCase restricted to ASCII).                                         *)
(***************************************************************************)
UpperChars ==
    <<"A","B","C","D","E","F","G","H","I","J","K","L","M",
      "N","O","P","Q","R","S","T","U","V","W","X","Y","Z">>

LowerChars ==
    <<"a","b","c","d","e","f","g","h","i","j","k","l","m",
      "n","o","p","q","r","s","t","u","v","w","x","y","z">>

DigitChars == {"0","1","2","3","4","5","6","7","8","9"}

Range(f) == { f[x] : x \in DOMAIN f }

IsUpper(c) == c \in Range(UpperChars)

IsLower(c) == c \in Range(LowerChars)

IsDigit(c) == c \in DigitChars

IsAlnum(c) == IsUpper(c) \/ IsLower(c) \/ IsDigit(c)

IndexIn(c, tbl) == CHOOSE n \in DOMAIN tbl : tbl[n] = c

LowerChar(c) == IF IsUpper(c) THEN LowerChars[IndexIn(c, UpperChars)] ELSE c

UpperChar(c) == IF IsLower(c) THEN UpperChars[IndexIn(c, LowerChars)] ELSE c

toLowerCase(s) == [n \in DOMAIN s |-> LowerChar(s[n])]

toUpperCase(s) == [n \in DOMAIN s |-> UpperChar(s[n])]

(***************************************************************************)
(* change-case: noCase splits the input into words at every run of          *)
(* non-alphanumeric characters and at the case boundaries                   *)
(* ([a-z0-9])([A-Z]) and ([A-Z])([A-Z][a-z]); pascalCase capitalises each   *)
(* word; camelCase lower-cases the first word and capitalises the others.   *)
(***************************************************************************)
CaseBoundary(s, n) ==
    /\ n > 1
    /\ \/ (IsLower(s[n-1]) \/ IsDigit(s[n-1])) /\ IsUpper(s[n])
       \/ /\ IsUpper(s[n-1]) /\ IsUpper(s[n])
          /\ n < Len(s) /\ IsLower(s[n+1])

Flush(words, cur) == IF cur = <<>> THEN words ELSE Append(words, cur)

RECURSIVE SplitWords(_, _, _, _)
SplitWords(s, n, words, cur) ==
    IF n > Len(s) THEN Flush(words, cur)
    ELSE IF ~IsAlnum(s[n]) THEN SplitWords(s, n + 1, Flush(words, cur), <<>>)
    ELSE IF CaseBoundary(s, n)
         THEN SplitWords(s, n + 1, Flush(words, cur), <<s[n]>>)
         ELSE SplitWords(s, n + 1, words, Append(cur, s[n]))

noCase(s) == SplitWords(s, 1, <<>>, <<>>)

pascalCaseTransform(w, idx) ==
    IF idx > 1 /\ IsDigit(w[1])
    THEN <<"_", w[1]>> \o toLowerCase(Tail(w))
    ELSE <<UpperChar(w[1])>> \o toLowerCase(Tail(w))

camelCaseTransform(w, idx) ==
    IF idx = 1 THEN toLowerCase(w) ELSE pascalCaseTransform(w, idx)

RECURSIVE JoinPascal(_, _)
JoinPascal(words, idx) ==
    IF idx > Len(words) THEN <<>>
    ELSE pascalCaseTransform(words[idx], idx) \o JoinPascal(words, idx + 1)

RECURSIVE JoinCamel(_, _)
JoinCamel(words, idx) ==
    IF idx > Len(words) THEN <<>>
    ELSE camelCaseTransform(words[idx], idx) \o JoinCamel(words, idx + 1)

pascalCase(s) == JoinPascal(noCase(s), 1)

camelCase(s) == JoinCamel(noCase(s), 1)

(***************************************************************************)
(* generateOperationId: "{name}" segments become "By", every other          *)
(* non-alphanumeric character is dropped, a trailing "By" becomes "ById",   *)
(* and method + "_" + cleanPath is camel-cased.                             *)
(***************************************************************************)
ClosingBrace(s, n) ==
    LET later == { m \in (n + 1)..Len(s) : s[m] = "}" }
    IN  IF later = {} THEN 0 ELSE CHOOSE m \in later : \A k \in later : m <= k

RECURSIVE ReplaceBraces(_, _)
RECURSIVE ReplaceBraceAt(_, _, _)

\* /{[^}]+}/g -> 'By', from position n on
ReplaceBraces(s, n) ==
    IF n > Len(s) THEN <<>>
    ELSE IF s[n] = "{" THEN ReplaceBraceAt(s, n, ClosingBrace(s, n))
    ELSE <<s[n]>> \o ReplaceBraces(s, n + 1)

ReplaceBraceAt(s, n, close) ==
    IF close > n + 1 THEN <<"B", "y">> \o ReplaceBraces(s, close + 1)
    ELSE <<s[n]>> \o ReplaceBraces(s, n + 1)

StripNonAlnum(s) == SelectSeq(s, IsAlnum)

EndsWith(s, suffix) ==
    /\ Len(s) >= Len(suffix)
    /\ SubSeq(s, Len(s) - Len(suffix) + 1, Len(s)) = suffix

ByToById(s) == IF EndsWith(s, <<"B", "y">>) THEN s \o <<"I", "d">> ELSE s

generateOperationId(method, path) ==
    camelCase(method \o <<"_">> \o ByToById(StripNonAlnum(ReplaceBraces(path, 1))))

(***************************************************************************)
(* Schemas.  A SwaggerSchema is a record with the fields the synthesis      *)
(* reads: $ref (a pointer string, <<>> when absent), type and format, the   *)
(* properties object (name/schema pairs in insertion order), the required   *)
(* list, items (0 or 1 schema), allOf and the description (<<>> when the    *)
(* schema declares none).  enum and example, and the description inside a   *)
(* converted property, are copied through by the code unread and are left   *)
(* out.                                                                     *)
(***************************************************************************)
Schema(ref, type, format, properties, required, items, allOf) ==
    [ref |-> ref, type |-> type, format |-> format, properties |-> properties,
     required |-> required, items |-> items, allOf |-> allOf,
     description |-> <<>>]

Described(schema, description) == [schema EXCEPT !.description = description]

Prim(type, format) == Schema(<<>>, type, format, <<>>, <<>>, <<>>, <<>>)

Obj(properties, required) ==
    Schema(<<>>, "object", "", properties, required, <<>>, <<>>)

Arr(item) == Schema(<<>>, "array", "", <<>>, <<>>, <<item>>, <<>>)

RefTo(pointer) == Schema(pointer, "", "", <<>>, <<>>, <<>>, <<>>)

(***************************************************************************)
(* JavaScript objects used as maps: sequences of <<key, value>> pairs with  *)
(* distinct keys, in insertion order.                                       *)
(***************************************************************************)
Keys(obj) == [n \in DOMAIN obj |-> obj[n][1]]

HasKey(obj, key) == \E n \in DOMAIN obj : obj[n][1] = key

Get(obj, key) == obj[CHOOSE n \in DOMAIN obj : obj[n][1] = key][2]

SetKey(obj, key, value) ==
    IF HasKey(obj, key)
    THEN [n \in DOMAIN obj |-> IF obj[n][1] = key THEN <<key, value>> ELSE obj[n]]
    ELSE Append(obj, <<key, value>>)

RECURSIVE AssignFrom(_, _, _)
AssignFrom(target, source, n) ==
    IF n > Len(source) THEN target
    ELSE AssignFrom(SetKey(target, source[n][1], source[n][2]), source, n + 1)

RECURSIVE AssignMissingFrom(_, _, _)
AssignMissingFrom(target, source, n) ==
    IF n > Len(source) THEN target
    ELSE AssignMissingFrom(
             IF HasKey(target, source[n][1]) THEN target
             ELSE Append(target, source[n]),
             source, n + 1)

\* A merge in which the earlier declaration of a property survives.
AssignKeepFirst(target, source) == AssignMissingFrom(target, source, 1)

\* Object.assign(target, source)
ObjectAssign(target, source) == AssignFrom(target, source, 1)

RECURSIVE Dedup(_, _, _)
Dedup(s, n, acc) ==
    IF n > Len(s) THEN acc
    ELSE Dedup(s, n + 1,
               IF \E m \in DOMAIN acc : acc[m] = s[n] THEN acc
               ELSE Append(acc, s[n]))

\* [...new Set(required)]
UniqueInOrder(s) == Dedup(s, 1, <<>>)

(***************************************************************************)
(* resolveSchema: the pointer loses its first "#/", is split at "/", and is *)
(* walked from the document root; a missing segment leaves the node         *)
(* unresolved and the schema itself is returned.  A document is            *)
(* [paths, components, definitions] with components 0 or 1 object          *)
(* [schemas] and definitions 0 or 1 schema table; the pointers of the       *)
(* documents modelled never reach inside a schema.                          *)
(***************************************************************************)
s_components == <<"c","o","m","p","o","n","e","n","t","s">>

s_definitions == <<"d","e","f","i","n","i","t","i","o","n","s">>

s_schemas == <<"s","c","h","e","m","a","s">>

FirstHashSlash(s) ==
    LET at == { n \in 1..(Len(s) - 1) : s[n] = "#" /\ s[n+1] = "/" }
    IN  IF at = {} THEN 0 ELSE CHOOSE n \in at : \A m \in at : n <= m

DropTwoAt(s, n) ==
    IF n = 0 THEN s ELSE SubSeq(s, 1, n - 1) \o SubSeq(s, n + 2, Len(s))

\* $ref.replace('#/', '')
DropHashSlash(s) == DropTwoAt(s, FirstHashSlash(s))

RECURSIVE SplitAt(_, _, _, _)
SplitAt(s, n, parts, cur) ==
    IF n > Len(s) THEN Append(parts, cur)
    ELSE IF s[n] = "/" THEN SplitAt(s, n + 1, Append(parts, cur), <<>>)
    ELSE SplitAt(s, n + 1, parts, Append(cur, s[n]))

\* .split('/')
SplitSlash(s) == SplitAt(s, 1, <<>>, <<>>)

s_constructor == <<"c","o","n","s","t","r","u","c","t","o","r">>

s_toString == <<"t","o","S","t","r","i","n","g">>

\* Among the members every object inherits from Object.prototype.
InheritedNames == {s_constructor, s_toString}

\* The member read under a name the object has no key for.
Inherited(segment) ==
    IF segment \in InheritedNames THEN <<"inherited", segment>> ELSE <<>>

\* resolved[segment]; a node is <<kind, value>>, a missing child is <<>>.  The
\* members of an inherited function are not followed.
Child(node, segment) ==
    IF node = <<>> THEN <<>>
    ELSE IF node[1] = "root"
         THEN (IF segment = s_components /\ node[2].components # <<>>
               THEN <<"components", node[2].components[1]>>
               ELSE IF segment = s_definitions /\ node[2].definitions # <<>>
               THEN <<"table", node[2].definitions[1]>>
               ELSE Inherited(segment))
    ELSE IF node[1] = "components"
         THEN (IF segment = s_schemas THEN <<"table", node[2].schemas>>
               ELSE Inherited(segment))
    ELSE IF node[1] = "table"
         THEN (IF HasKey(node[2], segment)
               THEN <<"schema", Get(node[2], segment)>> ELSE Inherited(segment))
    ELSE <<>>

RECURSIVE Walk(_, _, _)
Walk(node, refPath, n) ==
    IF n > Len(refPath) \/ node = <<>> THEN node
    ELSE Walk(Child(node, refPath[n]), refPath, n + 1)

\* A node that is no schema (a built-in function, the components object, a
\* schema table) read as one: it has none of the members a schema is read
\* for, no schema of the documents modelled being named like one.
NotASchema == Schema(<<>>, "", "", <<>>, <<>>, <<>>, <<>>)

\* return resolved || schema
ResolvedOr(resolved, schema) ==
    IF resolved = <<>> THEN schema
    ELSE IF resolved[1] = "schema" THEN resolved[2]
    ELSE NotASchema

resolveSchema(schema, api) ==
    IF schema.ref # <<>>
    THEN ResolvedOr(Walk(<<"root", api>>, SplitSlash(DropHashSlash(schema.ref)), 1),
                    schema)
    ELSE schema

mapSwaggerTypeToTypeScript(type, format) ==
    CASE type \in {"integer", "number"} -> "number"
      [] type = "boolean" -> "boolean"
      [] type = "string" ->
            IF format \in {"date", "date-time"} THEN "Date" ELSE "string"
      [] type = "array" -> "array"
      [] type = "object" -> "object"
      [] OTHER -> "any"

\* A parameter carries an OpenAPI 3 schema (0 or 1) or the OpenAPI 2 inline type.
getParameterType(param) ==
    IF param.schema # <<>>
    THEN mapSwaggerTypeToTypeScript(param.schema[1].type, param.schema[1].format)
    ELSE mapSwaggerTypeToTypeScript(param.type, param.format)

(***************************************************************************)
(* Properties of the output.  convertSchemaToProperty yields a record with  *)
(* type, items (0 or 1 property), properties and required.                  *)
(***************************************************************************)
Property(type, items, properties, required) ==
    [type |-> type, items |-> items, properties |-> properties,
     required |-> required]

RECURSIVE extractSchemaProperties(_, _)
RECURSIVE convertSchemaToProperty(_, _)
RECURSIVE ConvertProperties(_, _, _, _)
RECURSIVE MergeAllOf(_, _, _, _)
RECURSIVE ConvertResolved(_, _)

\* properties[propName] = this.convertSchemaToProperty(propSchema, api)
ConvertProperties(declared, api, n, acc) ==
    IF n > Len(declared) THEN acc
    ELSE ConvertProperties(declared, api, n + 1,
             SetKey(acc, declared[n][1], convertSchemaToProperty(declared[n][2], api)))

\* Object.assign(properties, subProps.properties); required.push(...subProps.required)
MergeInto(acc, subProps) ==
    [properties |-> ObjectAssign(acc.properties, subProps.properties),
     required |-> acc.required \o subProps.required]

MergeAllOf(allOf, api, n, acc) ==
    IF n > Len(allOf) THEN acc
    ELSE MergeAllOf(allOf, api, n + 1,
             MergeInto(acc, extractSchemaProperties(resolveSchema(allOf[n], api), api)))

\* return { properties, required: [...new Set(required)] }
WithUniqueRequired(merged) ==
    [properties |-> merged.properties, required |-> UniqueInOrder(merged.required)]

extractSchemaProperties(schema, api) ==
    WithUniqueRequired(
        MergeAllOf(schema.allOf, api, 1,
                   [properties |-> ConvertProperties(schema.properties, api, 1, <<>>),
                    required |-> schema.required]))

ObjectProperty(subProps) ==
    Property("object", <<>>, subProps.properties, subProps.required)

ConvertResolved(resolved, api) ==
    IF resolved.type = "array"
    THEN Property("array",
             IF resolved.items # <<>>
             THEN <<convertSchemaToProperty(resolved.items[1], api)>>
             ELSE <<Property("any", <<>>, <<>>, <<>>)>>,
             <<>>, <<>>)
    ELSE IF resolved.type = "object"
    THEN ObjectProperty(extractSchemaProperties(resolved, api))
    ELSE Property(
             mapSwaggerTypeToTypeScript(
                 IF resolved.type = "" THEN "any" ELSE resolved.type,
                 resolved.format),
             <<>>, <<>>, <<>>)

convertSchemaToProperty(schema, api) ==
    ConvertResolved(resolveSchema(schema, api), api)

(***************************************************************************)
(* The depth of the recursion.  Neither function keeps a set of the         *)
(* schemas it is expanding; each call that is made takes a frame of the     *)
(* stack, and the engine ends a recursion that outgrows the stack with a    *)
(* RangeError.                                                              *)
(***************************************************************************)
\* The frames the stack holds for one expansion.
MaxDepth == 12

RECURSIVE ExtractDeeper(_, _, _)
RECURSIVE ConvertDeeper(_, _, _)
RECURSIVE ConvertResolvedDeeper(_, _, _)

\* extractSchemaProperties(schema, api) needs more than the frames given.
ExtractDeeper(schema, api, frames) ==
    IF frames = 0 THEN TRUE
    ELSE \/ \E n \in DOMAIN schema.properties :
               ConvertDeeper(schema.properties[n][2], api, frames - 1)
         \/ \E n \in DOMAIN schema.allOf :
               ExtractDeeper(resolveSchema(schema.allOf[n], api), api, frames - 1)

ConvertResolvedDeeper(resolved, api, frames) ==
    IF resolved.type = "array"
    THEN resolved.items # <<>> /\ ConvertDeeper(resolved.items[1], api, frames - 1)
    ELSE IF resolved.type = "object"
    THEN ExtractDeeper(resolved, api, frames - 1)
    ELSE FALSE

\* convertSchemaToProperty(schema, api) needs more than the frames given.
ConvertDeeper(schema, api, frames) ==
    IF frames = 0 THEN TRUE
    ELSE ConvertResolvedDeeper(resolveSchema(schema, api), api, frames)

\* The expansion of the schema outgrows the stack.
Overflows(schema, api) == ExtractDeeper(schema, api, MaxDepth)

(***************************************************************************)
(* Operations.  A parameter is [name, in, required, schema, type, format,   *)
(* ref]; a response is [status, json, schema] with json the schema of its   *)
(* content['application/json'] entry and schema the OpenAPI 2 inline        *)
(* schema (each 0 or 1 schema); a request body is [json, ref]; an operation *)
(* is [operationId, parameters, requestBody, responses] with requestBody 0  *)
(* or 1 request body and the responses in Object.entries order.  The parsed *)
(* document is not dereferenced: a parameter or a request body may be a     *)
(* reference object (ref # <<>>), which has none of the other members.      *)
(***************************************************************************)
PageParamNames ==
    <<<<"p","a","g","e">>,
      <<"o","f","f","s","e","t">>,
      <<"l","i","m","i","t">>,
      <<"s","i","z","e">>,
      <<"p","a","g","e","S","i","z","e">>,
      <<"p","a","g","e","N","u","m","b","e","r">>>>

PaginationFields ==
    <<<<"t","o","t","a","l","C","o","u","n","t">>,
      <<"t","o","t","a","l","P","a","g","e","s">>,
      <<"p","a","g","e">>,
      <<"p","a","g","e","S","i","z","e">>,
      <<"h","a","s","N","e","x","t">>,
      <<"h","a","s","P","r","e","v","i","o","u","s">>>>

\* The names tried from the last to the first.
DataPropsReversed ==
    <<<<"r","e","s","u","l","t","s">>,
      <<"i","t","e","m","s">>,
      <<"r","e","c","o","r","d","s">>,
      <<"d","a","t","a">>>>

DataProps ==
    <<<<"d","a","t","a">>,
      <<"r","e","c","o","r","d","s">>,
      <<"i","t","e","m","s">>,
      <<"r","e","s","u","l","t","s">>>>

HttpMethods ==
    <<<<"G","E","T">>,
      <<"P","O","S","T">>,
      <<"P","U","T">>,
      <<"P","A","T","C","H">>,
      <<"D","E","L","E","T","E">>>>

s_unknown == <<"u","n","k","n","o","w","n">>

s_QueryParams == <<"Q","u","e","r","y","P","a","r","a","m","s">>

s_InData == <<"I","n","D","a","t","a">>

s_OutData == <<"O","u","t","D","a","t","a">>

s_RecordData == <<"R","e","c","o","r","d","D","a","t","a">>

s_Data == <<"D","a","t","a">>

Includes(list, e) == \E n \in DOMAIN list : list[n] = e

\* operation.parameters?.some(p => p.in === 'query') || false
hasQueryParams(operation) ==
    \E n \in DOMAIN operation.parameters : operation.parameters[n]["in"] = "query"

\* response.content?.['application/json']?.schema || response.schema
ResponseSchema(response) ==
    IF response.json # <<>> THEN response.json ELSE response.schema

hasResponseBody(operation) ==
    \E n \in DOMAIN operation.responses :
        ResponseSchema(operation.responses[n]) # <<>>

\* schema is 0 or 1 schema, as handed over by the caller, not resolved here.
isPaginatedSchema(schema) ==
    /\ schema # <<>>
    /\ schema[1].properties # <<>>
    /\ LET schemaFields == [n \in DOMAIN schema[1].properties |->
                               toLowerCase(schema[1].properties[n][1])]
       IN  \E f \in DOMAIN PaginationFields :
               Includes(schemaFields, toLowerCase(PaginationFields[f]))

\* ['page', ..., 'pageNumber'].includes(p.name.toLowerCase())
IsPageParam(param) == Includes(PageParamNames, toLowerCase(param.name))

detectPagination(operation) ==
    LET hasPageParams ==
            \E n \in DOMAIN operation.parameters :
                IsPageParam(operation.parameters[n])
        hasPaginatedResponse ==
            \E n \in DOMAIN operation.responses :
                isPaginatedSchema(ResponseSchema(operation.responses[n]))
    IN  hasPageParams \/ hasPaginatedResponse

\* p.name.toLowerCase() on a parameter without a name is a TypeError; some()
\* stops at the first parameter that matches and never reads the later ones.
NameReadThrows(parameters) ==
    \E n \in DOMAIN parameters :
        /\ parameters[n].ref # <<>>
        /\ \A m \in 1..(n - 1) : ~IsPageParam(parameters[m])

\* createApiDocumentation ends in a TypeError.
ApiDocThrows(operation) == NameReadThrows(operation.parameters)

\* content['application/json'] on a request body without a content object is
\* a TypeError; the read is reached only when an operationId is declared.
BodyReadThrows(operation) ==
    /\ operation.requestBody # <<>>
    /\ operation.operationId # <<>>
    /\ operation.requestBody[1].ref # <<>>

\* property?.type === 'array' && property.items; property is 0 or 1 schema
IsArrayWithItems(property) ==
    property # <<>> /\ property[1].type = "array" /\ property[1].items # <<>>

\* resolved.properties[prop], 0 or 1 schema
PropertyNamed(properties, prop) ==
    IF HasKey(properties, prop) THEN <<Get(properties, prop)>> ELSE <<>>

RECURSIVE FirstArrayItems(_, _, _)
RECURSIVE ItemsOrNext(_, _, _, _)

FirstArrayItems(resolved, api, n) ==
    IF n > Len(DataProps) THEN <<>>
    ELSE ItemsOrNext(resolved, api, n, PropertyNamed(resolved.properties, DataProps[n]))

ItemsOrNext(resolved, api, n, property) ==
    IF IsArrayWithItems(property)
    THEN <<resolveSchema(property[1].items[1], api)>>
    ELSE FirstArrayItems(resolved, api, n + 1)

\* 0 or 1 schema
extractRecordSchema(schema, api) ==
    FirstArrayItems(resolveSchema(schema, api), api, 1)

\* A key test that compares the key as written.
IsUpperCaseVerb(method) == Includes(HttpMethods, method)

isValidHttpMethod(method) == Includes(HttpMethods, toUpperCase(method))

(***************************************************************************)
(* Records of the output.  The serialized columns (JSON.stringify) are      *)
(* represented by the value serialized; a column that is undefined is <<>>. *)
(* tag, summary, pathParams, requiresAuth and businessPurpose of an API     *)
(* record are functions of one operation alone and are left out.            *)
(***************************************************************************)
ModelDocumentation(modelName, properties, required, description, usedInOperations) ==
    [sNo |-> 0, modelName |-> modelName, properties |-> properties,
     required |-> required, description |-> description,
     usedInOperations |-> usedInOperations]

d_QueryParametersFor == <<"Q","u","e","r","y"," ","p","a","r","a","m","e","t","e","r","s"," ","f","o","r"," ">>

d_RequestBodyModelFor == <<"R","e","q","u","e","s","t"," ","b","o","d","y"," ","m","o","d","e","l"," ","f","o","r"," ">>

d_ResponseModelFor == <<"R","e","s","p","o","n","s","e"," ","m","o","d","e","l"," ","f","o","r"," ">>

d_RecordModelFor == <<"R","e","c","o","r","d"," ","m","o","d","e","l"," ","f","o","r"," ">>

d_operation == <<" ","o","p","e","r","a","t","i","o","n">>

d_paginatedResponse == <<" ","p","a","g","i","n","a","t","e","d"," ","r","e","s","p","o","n","s","e">>

d_entityModel == <<" ","e","n","t","i","t","y"," ","m","o","d","e","l">>

\* operation.operationId || this.generateOperationId(method, path)
OperationIdOf(method, path, operation) ==
    IF operation.operationId # <<>> THEN operation.operationId
    ELSE generateOperationId(method, path)

\* path.match(/{([^}]+)}/g), each match without its braces: match.slice(1, -1)
RECURSIVE PathParamMatches(_, _)
PathParamMatches(path, i) ==
    IF i > Len(path) THEN <<>>
    ELSE IF path[i] = "{" /\ ClosingBrace(path, i) > i + 1
         THEN <<SubSeq(path, i + 1, ClosingBrace(path, i) - 1)>>
              \o PathParamMatches(path, ClosingBrace(path, i) + 1)
         ELSE PathParamMatches(path, i + 1)

\* operation.parameters?.find(p => p.name === paramName && p.in === 'path')
FindPathParam(parameters, paramName) ==
    LET found == { n \in DOMAIN parameters :
                     /\ parameters[n].name = paramName
                     /\ parameters[n]["in"] = "path" }
    IN  IF found = {} THEN <<>>
        ELSE <<parameters[CHOOSE n \in found : \A m \in found : n <= m]>>

\* param.required || true
RequiredOrTrue(required) == IF required THEN required ELSE TRUE

PathParam(type, required, description) ==
    [type |-> type, required |-> required, description |-> description]

s___proto__ == <<"_","_","p","r","o","t","o","_","_">>

\* pathParams[paramName] = { ... } on an object literal: the key __proto__ is
\* the prototype accessor, and assigning an object to it replaces the
\* prototype of pathParams instead of adding a key.
AssignKey(obj, key, value) ==
    IF key = s___proto__ THEN obj ELSE SetKey(obj, key, value)

RECURSIVE PathParamsFrom(_, _, _, _)
PathParamsFrom(matches, n, parameters, pathParams) ==
    IF n > Len(matches) THEN pathParams
    ELSE PathParamsFrom(matches, n + 1, parameters,
             AssignKey(pathParams, matches[n],
                 IF FindPathParam(parameters, matches[n]) # <<>>
                 THEN PathParam(getParameterType(FindPathParam(parameters, matches[n])[1]),
                                RequiredOrTrue(FindPathParam(parameters, matches[n])[1].required),
                                FindPathParam(parameters, matches[n])[1].description)
                 ELSE PathParam("string", TRUE, <<>>)))

\* The object, or <<>> for undefined: without a match, and without a key.
extractPathParameters(path, operation) ==
    PathParamsFrom(PathParamMatches(path, 1), 1, operation.parameters, <<>>)

\* The record, given the operationId and its pascalCase form.
ApiDocumentation(sNo, path, method, operation, operationId, pascalId) ==
    [sNo |-> sNo,
     endpoint |-> path,
     method |-> method,
     operationId |-> operationId,
     pathParams |-> extractPathParameters(path, operation),
     queryParamsRef |->
         IF hasQueryParams(operation) THEN pascalId \o s_QueryParams ELSE <<>>,
     requestBodyRef |->
         IF operation.requestBody # <<>> THEN pascalId \o s_InData ELSE <<>>,
     responseBodyRef |->
         IF hasResponseBody(operation) THEN pascalId \o s_OutData ELSE <<>>,
     isPaginated |-> detectPagination(operation)]

WithOperationId(sNo, path, method, operation, operationId) ==
    ApiDocumentation(sNo, path, method, operation, operationId,
                     pascalCase(operationId))

createApiDocumentation(sNo, path, method, operation, api) ==
    WithOperationId(sNo, path, method, operation,
                    OperationIdOf(method, path, operation))

RECURSIVE QueryProperties(_, _, _)
QueryProperties(queryParams, n, acc) ==
    IF n > Len(queryParams) THEN acc
    ELSE QueryProperties(queryParams, n + 1,
             [properties |->
                  SetKey(acc.properties, queryParams[n].name,
                         Property(getParameterType(queryParams[n]), <<>>, <<>>, <<>>)),
              required |->
                  IF queryParams[n].required
                  THEN Append(acc.required, queryParams[n].name)
                  ELSE acc.required])

IsQueryParam(param) == param["in"] = "query"

\* A model built from an extraction result { properties, required }.
ModelOf(modelName, extracted, description, usedInOperations) ==
    ModelDocumentation(modelName, extracted.properties, extracted.required,
                       description, usedInOperations)

QueryParamsModel(queryParams, operationId) ==
    IF queryParams = <<>> THEN <<>>
    ELSE <<ModelOf(pascalCase(operationId) \o s_QueryParams,
                   QueryProperties(queryParams, 1,
                                   [properties |-> <<>>, required |-> <<>>]),
                   d_QueryParametersFor \o operationId \o d_operation,
                   operationId)>>

\* 0 or 1 model
createQueryParamsModel(operation, operationId) ==
    QueryParamsModel(SelectSeq(operation.parameters, IsQueryParam), operationId)

\* 0 or 1 model
createRequestBodyModel(operation, api) ==
    IF operation.requestBody = <<>> \/ operation.operationId = <<>> THEN <<>>
    ELSE IF operation.requestBody[1].json = <<>> THEN <<>>
    ELSE <<ModelOf(pascalCase(operation.operationId) \o s_InData,
                   extractSchemaProperties(
                       resolveSchema(operation.requestBody[1].json[1], api), api),
                   d_RequestBodyModelFor \o operation.operationId \o d_operation,
                   operation.operationId)>>

\* status.startsWith('2')
IsSuccessStatus(status) == status # <<>> /\ status[1] = "2"

\* 0 or 1 model
RecordModel(pascalId, operationId, recordSchema, api) ==
    IF recordSchema = <<>> THEN <<>>
    ELSE <<ModelOf(pascalId \o s_RecordData,
                   extractSchemaProperties(recordSchema[1], api),
                   d_RecordModelFor \o operationId \o d_paginatedResponse,
                   operationId)>>

\* The models of one success response whose JSON schema resolved to schema.
SchemaModels(pascalId, operationId, schema, api) ==
    <<ModelOf(pascalId \o s_OutData, extractSchemaProperties(schema, api),
              d_ResponseModelFor \o operationId \o d_operation, operationId)>>
    \o (IF isPaginatedSchema(<<schema>>)
        THEN RecordModel(pascalId, operationId, extractRecordSchema(schema, api), api)
        ELSE <<>>)

ResponseModels(pascalId, operationId, response, api) ==
    IF response.json = <<>> THEN <<>>
    ELSE SchemaModels(pascalId, operationId, resolveSchema(response.json[1], api), api)

RECURSIVE SuccessResponseModels(_, _, _, _)
SuccessResponseModels(pascalId, operation, api, n) ==
    IF n > Len(operation.responses) THEN <<>>
    ELSE (IF IsSuccessStatus(operation.responses[n].status)
          THEN ResponseModels(pascalId, operation.operationId,
                              operation.responses[n], api)
          ELSE <<>>)
         \o SuccessResponseModels(pascalId, operation, api, n + 1)

createResponseModels(operation, api) ==
    IF operation.operationId = <<>> THEN <<>>
    ELSE SuccessResponseModels(pascalCase(operation.operationId), operation, api, 1)

\* A membership test that never finds the name.
NeverSeen(seenModels, modelName) == FALSE

\* seenModels.has(modelName)
SeenHas(seenModels, modelName) == modelName \in seenModels

\* A push in which a later candidate takes the place of an earlier one of the
\* same operation.
RECURSIVE PushLatest(_, _, _)
PushLatest(acc, candidates, n) ==
    IF n > Len(candidates) THEN acc
    ELSE PushLatest(
             IF \E m \in DOMAIN acc.models :
                    acc.models[m].modelName = candidates[n].modelName
             THEN [models |-> [m \in DOMAIN acc.models |->
                                  IF acc.models[m].modelName = candidates[n].modelName
                                  THEN candidates[n] ELSE acc.models[m]],
                   seenModels |-> acc.seenModels]
             ELSE IF SeenHas(acc.seenModels, candidates[n].modelName) THEN acc
             ELSE [models |-> Append(acc.models, candidates[n]),
                   seenModels |-> acc.seenModels \cup {candidates[n].modelName}],
             candidates, n + 1)

\* A push that never records the name of the model it pushes.
RECURSIVE PushUnrecorded(_, _, _)
PushUnrecorded(acc, candidates, n) ==
    IF n > Len(candidates) THEN acc
    ELSE PushUnrecorded(
             IF SeenHas(acc.seenModels, candidates[n].modelName) THEN acc
             ELSE [models |-> Append(acc.models, candidates[n]),
                   seenModels |-> acc.seenModels],
             candidates, n + 1)

\* if (!seenModels.has(m.modelName)) { models.push(m); seenModels.add(m.modelName) }
RECURSIVE PushUnseen(_, _, _)
PushUnseen(acc, candidates, n) ==
    IF n > Len(candidates) THEN acc
    ELSE PushUnseen(
             IF SeenHas(acc.seenModels, candidates[n].modelName) THEN acc
             ELSE [models |-> Append(acc.models, candidates[n]),
                   seenModels |-> acc.seenModels \cup {candidates[n].modelName}],
             candidates, n + 1)

\* The models of one operation and the seen-names set as the call leaves it:
\* the query-parameter model, then the request body's, then the responses'.
extractModelsFromOperation(operation, api, seenModels) ==
    PushUnseen(
        PushUnseen(
            PushUnseen([models |-> <<>>, seenModels |-> seenModels],
                       IF hasQueryParams(operation)
                       THEN createQueryParamsModel(operation,
                                IF operation.operationId # <<>>
                                THEN operation.operationId ELSE s_unknown)
                       ELSE <<>>,
                       1),
            IF operation.requestBody # <<>>
            THEN createRequestBodyModel(operation, api) ELSE <<>>,
            1),
        createResponseModels(operation, api), 1)

\* A description that ignores what the schema declares.
DefaultDescription(schema, name) == name \o d_entityModel

\* schema.description || `${name} entity model`
DescriptionOr(schema, name) ==
    IF schema.description # <<>> THEN schema.description ELSE name \o d_entityModel

\* One pass of the forEach over the schema table.
StandaloneModel(acc, name, modelName, schema, api) ==
    IF SeenHas(acc.seenModels, modelName) THEN acc
    ELSE [models |-> Append(acc.models,
                            ModelOf(modelName, extractSchemaProperties(schema, api),
                                    DescriptionOr(schema, name), <<>>)),
          seenModels |-> acc.seenModels \cup {modelName}]

RECURSIVE StandaloneFrom(_, _, _, _)
StandaloneFrom(schemas, api, n, acc) ==
    IF n > Len(schemas) THEN acc
    ELSE StandaloneFrom(schemas, api, n + 1,
             StandaloneModel(acc, schemas[n][1], pascalCase(schemas[n][1]) \o s_Data,
                             schemas[n][2], api))

\* api.components?.schemas || api.definitions || {}
SchemaTable(api) ==
    IF api.components # <<>> THEN api.components[1].schemas
    ELSE IF api.definitions # <<>> THEN api.definitions[1]
    ELSE <<>>

extractStandaloneModels(api, seenModels) ==
    StandaloneFrom(SchemaTable(api), api, 1,
                   [models |-> <<>>, seenModels |-> seenModels])

(***************************************************************************)
(* Where an expansion that outgrows the stack ends the traversal.           *)
(***************************************************************************)
\* createRequestBodyModel: extractSchemaProperties(schema, api)
BodyOverflows(operation, api) ==
    /\ operation.requestBody # <<>>
    /\ operation.operationId # <<>>
    /\ operation.requestBody[1].ref = <<>>
    /\ operation.requestBody[1].json # <<>>
    /\ Overflows(resolveSchema(operation.requestBody[1].json[1], api), api)

RecordOverflows(recordSchema, api) ==
    recordSchema # <<>> /\ Overflows(recordSchema[1], api)

\* createResponseModels: the response schema, then the record schema
SchemaOverflows(schema, api) ==
    \/ Overflows(schema, api)
    \/ /\ isPaginatedSchema(<<schema>>)
       /\ RecordOverflows(extractRecordSchema(schema, api), api)

ResponsesOverflow(operation, api) ==
    /\ operation.operationId # <<>>
    /\ \E n \in DOMAIN operation.responses :
           /\ IsSuccessStatus(operation.responses[n].status)
           /\ operation.responses[n].json # <<>>
           /\ SchemaOverflows(resolveSchema(operation.responses[n].json[1], api), api)

ModelsOverflow(operation, api) ==
    BodyOverflows(operation, api) \/ ResponsesOverflow(operation, api)

\* The set as extractModelsFromOperation had left it when the expansion began:
\* the response models are pushed after createResponseModels has returned.
SeenAtOverflow(operation, api, seen) ==
    IF BodyOverflows(operation, api)
    THEN PushUnseen([models |-> <<>>, seenModels |-> seen],
                    IF hasQueryParams(operation)
                    THEN createQueryParamsModel(operation, operation.operationId)
                    ELSE <<>>,
                    1).seenModels
    ELSE PushUnseen(
             PushUnseen([models |-> <<>>, seenModels |-> seen],
                        IF hasQueryParams(operation)
                        THEN createQueryParamsModel(operation, operation.operationId)
                        ELSE <<>>,
                        1),
             IF operation.requestBody # <<>>
             THEN createRequestBodyModel(operation, api) ELSE <<>>,
             1).seenModels

\* The first schema of the table whose expansion is begun and outgrows the
\* stack, 0 when there is none; seen is the set at the start of the forEach.
RECURSIVE FirstOverflowing(_, _, _, _)
FirstOverflowing(schemas, api, n, seen) ==
    IF n > Len(schemas) THEN 0
    ELSE IF SeenHas(seen, pascalCase(schemas[n][1]) \o s_Data)
    THEN FirstOverflowing(schemas, api, n + 1, seen)
    ELSE IF Overflows(schemas[n][2], api) THEN n
    ELSE FirstOverflowing(schemas, api, n + 1,
                          seen \cup {pascalCase(schemas[n][1]) \o s_Data})

StandaloneOverflows(api, seenModels) ==
    FirstOverflowing(SchemaTable(api), api, 1, seenModels) # 0

\* The set as the forEach had left it when the expansion began.
SeenBefore(schemas, api, n, seenModels) ==
    StandaloneFrom(SubSeq(schemas, 1, n - 1), api, 1,
                   [models |-> <<>>, seenModels |-> seenModels]).seenModels

(***************************************************************************)
(* The documents synthesis is run on: names, paths, method keys and status  *)
(* codes as they appear in an OpenAPI document.                             *)
(***************************************************************************)
p_items == <<"/","i","t","e","m","s">>

p_ab == <<"/","a","b">>

p_a_b == <<"/","a","-","b">>

p_widgets == <<"/","w","i","d","g","e","t","s">>

p_widget == <<"/","w","i","d","g","e","t","s","/","{","i","d","}">>

p_search == <<"/","s","e","a","r","c","h">>

p_legacy == <<"/","l","e","g","a","c","y">>

p_upload == <<"/","u","p","l","o","a","d">>

m_get == <<"g","e","t">>

m_post == <<"p","o","s","t">>

m_GET == <<"G","E","T">>

m_head == <<"h","e","a","d">>

m_parameters == <<"p","a","r","a","m","e","t","e","r","s">>

id_getItems == <<"g","e","t","I","t","e","m","s">>

id_listWidgets == <<"l","i","s","t","W","i","d","g","e","t","s">>

id_pageWidgets == <<"p","a","g","e","W","i","d","g","e","t","s">>

id_createWidget == <<"c","r","e","a","t","e","W","i","d","g","e","t">>

id_searchItems == <<"s","e","a","r","c","h","I","t","e","m","s">>

id_uploadWidget == <<"u","p","l","o","a","d","W","i","d","g","e","t">>

id_checkWidget == <<"c","h","e","c","k","W","i","d","g","e","t">>

n_Widget == <<"W","i","d","g","e","t">>

n_WidgetPage == <<"W","i","d","g","e","t","P","a","g","e">>

n_CreateWidgetIn == <<"C","r","e","a","t","e","W","i","d","g","e","t","I","n">>

n_Missing == <<"M","i","s","s","i","n","g">>

n_Combined == <<"C","o","m","b","i","n","e","d">>

n_widget == <<"w","i","d","g","e","t">>

n_ListWidgetsOut == <<"L","i","s","t","W","i","d","g","e","t","s","O","u","t">>

t_aWidget == <<"A"," ","w","i","d","g","e","t">>

t_aListing == <<"A"," ","l","i","s","t","i","n","g">>

f_id == <<"i","d">>

f_name == <<"n","a","m","e">>

f_data == <<"d","a","t","a">>

f_records == <<"r","e","c","o","r","d","s">>

f_items == <<"i","t","e","m","s">>

f_results == <<"r","e","s","u","l","t","s">>

f_totalCount == <<"t","o","t","a","l","C","o","u","n","t">>

f_message == <<"m","e","s","s","a","g","e">>

q_page == <<"p","a","g","e">>

q_limit == <<"l","i","m","i","t">>

q_pageSize == <<"p","a","g","e","S","i","z","e">>

q_PageNumber == <<"P","a","g","e","N","u","m","b","e","r">>

q_LIMIT == <<"L","I","M","I","T">>

q_q == <<"q">>

s_200 == <<"2","0","0">>

s_201 == <<"2","0","1">>

s_400 == <<"4","0","0">>

s_404 == <<"4","0","4">>

\* '#/components/schemas/<name>'
SchemaRef(name) ==
    RefTo(<<"#", "/">> \o s_components \o <<"/">> \o s_schemas \o <<"/">> \o name)

Param(name, location, required, type) ==
    [name |-> name, in |-> location, required |-> required,
     schema |-> <<Prim(type, "")>>, type |-> "", format |-> "", ref |-> <<>>,
     description |-> <<>>]

\* A parameter with a description.
DescribedParam(name, location, required, type, description) ==
    [name |-> name, in |-> location, required |-> required,
     schema |-> <<Prim(type, "")>>, type |-> "", format |-> "", ref |-> <<>>,
     description |-> <<description>>]

\* OpenAPI 2 style: the type is declared on the parameter itself.
InlineParam(name, location, required, type) ==
    [name |-> name, in |-> location, required |-> required,
     schema |-> <<>>, type |-> type, format |-> "", ref |-> <<>>,
     description |-> <<>>]

\* A parameter given as a reference object: it has no name and no location.
RefParam(pointer) ==
    [name |-> <<>>, in |-> "", required |-> FALSE, schema |-> <<>>,
     type |-> "", format |-> "", ref |-> pointer, description |-> <<>>]

\* A request body with a content object; json is its application/json schema.
Body(json) == [json |-> json, ref |-> <<>>]

\* A request body given as a reference object: it has no content.
RefBody(pointer) == [json |-> <<>>, ref |-> pointer]

Response(status, json, schema) ==
    [status |-> status, json |-> json, schema |-> schema]

Operation(operationId, parameters, requestBody, responses) ==
    [operationId |-> operationId, parameters |-> parameters,
     requestBody |-> requestBody, responses |-> responses]

WidgetSchema ==
    Obj(<< <<f_id, Prim("integer", "")>>, <<f_name, Prim("string", "")>> >>, <<f_id>>)

PageSchema ==
    Obj(<< <<f_data, Arr(SchemaRef(n_Widget))>>,
           <<f_totalCount, Prim("integer", "")>> >>, <<>>)

ErrorSchema == Obj(<< <<f_message, Prim("string", "")>> >>, <<>>)

BaseSchemas ==
    << <<n_Widget, WidgetSchema>>,
       <<n_WidgetPage, PageSchema>>,
       <<n_CreateWidgetIn, Obj(<< <<f_name, Prim("string", "")>> >>, <<f_name>>)>> >>

\* GET /items?page&limit of the specification's example: no operationId.
opListNoId ==
    Operation(<<>>,
              <<Param(q_page, "query", FALSE, "integer"),
                InlineParam(q_limit, "query", FALSE, "integer")>>,
              <<>>, <<Response(s_200, <<>>, <<>>)>>)

opSearch(paramName, location) ==
    Operation(id_searchItems,
              <<Param(paramName, location, TRUE, "integer")>>,
              <<>>, <<Response(s_200, <<Arr(SchemaRef(n_Widget))>>, <<>>)>>)

opListWidgets ==
    Operation(id_listWidgets, <<>>, <<>>, <<Response(s_200, <<PageSchema>>, <<>>)>>)

opPageWidgets ==
    Operation(id_pageWidgets, <<>>, <<>>,
              <<Response(s_200, <<SchemaRef(n_WidgetPage)>>, <<>>)>>)

opPageNoId ==
    Operation(<<>>, <<>>, <<>>, <<Response(s_200, <<PageSchema>>, <<>>)>>)

opCreateWidget ==
    Operation(id_createWidget, <<>>, <<Body(<<SchemaRef(n_Missing)>>)>>,
              <<Response(s_201, <<SchemaRef(n_Widget)>>, <<>>),
                Response(s_400, <<ErrorSchema>>, <<>>)>>)

opCreateNoId ==
    Operation(<<>>, <<>>, <<Body(<<SchemaRef(n_Missing)>>)>>,
              <<Response(s_201, <<>>, <<>>)>>)

\* A body without an application/json entry and two success responses.
opUpload ==
    Operation(id_uploadWidget, <<>>, <<Body(<<>>)>>,
              <<Response(s_200, <<SchemaRef(n_Widget)>>, <<>>),
                Response(s_201, <<SchemaRef(n_WidgetPage)>>, <<>>)>>)

\* OpenAPI 2 style response schema, and an operationId another operation's
\* synthesized one can equal.
opLegacy ==
    Operation(id_getItems, <<>>, <<Body(<<WidgetSchema>>)>>,
              <<Response(s_200, <<>>, <<WidgetSchema>>)>>)

\* A plain success response and an error response with the page envelope.
opErrorPage ==
    Operation(id_checkWidget, <<>>, <<>>,
              <<Response(s_200, <<SchemaRef(n_Widget)>>, <<>>),
                Response(s_400, <<PageSchema>>, <<>>)>>)

\* The operationId of opCreateWidget again, with another body schema and two
\* success responses.
opCreateAgain ==
    Operation(id_createWidget, <<>>, <<Body(<<WidgetSchema>>)>>,
              <<Response(s_200, <<PageSchema>>, <<>>),
                Response(s_201, <<ErrorSchema>>, <<>>)>>)

\* The page parameter stops the scan before the reference object is read.
opPageThenRef ==
    Operation(<<>>, <<Param(q_page, "query", FALSE, "integer"),
                      RefParam(<<"#","/","c","o","m","p","o","n","e","n","t","s","/",
                                 "p","a","r","a","m","e","t","e","r","s","/","q">>)>>,
              <<>>, <<Response(s_200, <<>>, <<>>)>>)

opRefParam ==
    Operation(id_searchItems,
              <<Param(q_q, "query", FALSE, "string"),
                RefParam(<<"#","/","c","o","m","p","o","n","e","n","t","s","/",
                           "p","a","r","a","m","e","t","e","r","s","/","q">>)>>,
              <<>>, <<Response(s_200, <<SchemaRef(n_Widget)>>, <<>>)>>)

opRefBody ==
    Operation(id_createWidget, <<Param(q_q, "query", TRUE, "string")>>,
              <<RefBody(<<"#","/","c","o","m","p","o","n","e","n","t","s","/",
                          "r","e","q","u","e","s","t","B","o","d","i","e","s","/","w">>)>>,
              <<Response(s_201, <<SchemaRef(n_Widget)>>, <<>>)>>)

opNotFoundOnly ==
    Operation(<<>>, <<InlineParam(f_id, "path", TRUE, "integer")>>, <<>>,
              <<Response(s_404, <<ErrorSchema>>, <<>>)>>)

PathItem(path, item) == [path |-> path, item |-> item]

Entry(method, operation) == [method |-> method, operation |-> operation]

SearchParams ==
    << <<q_page, "query">>, <<q_pageSize, "query">>, <<q_PageNumber, "header">>,
       <<q_LIMIT, "query">>, <<q_q, "query">> >>

\* The path items documents are composed of.
PathItems ==
    << PathItem(p_items, <<Entry(m_get, opListNoId)>>),
       PathItem(p_items, <<Entry(m_parameters, <<>>), Entry(m_GET, opListNoId),
                           Entry(m_head, opListWidgets)>>),
       PathItem(p_ab, <<Entry(m_get, opListNoId)>>),
       PathItem(p_a_b, <<Entry(m_get, opPageNoId)>>),
       PathItem(p_widgets, <<Entry(m_get, opListWidgets), Entry(m_post, opCreateWidget)>>),
       PathItem(p_widgets, <<Entry(m_get, opPageWidgets)>>),
       PathItem(p_widgets, <<Entry(m_get, opPageNoId), Entry(m_post, opCreateNoId)>>),
       PathItem(p_legacy, <<Entry(m_get, opLegacy)>>),
       PathItem(p_legacy, <<Entry(m_post, opCreateAgain)>>),
       PathItem(p_upload, <<Entry(m_post, opUpload)>>),
       PathItem(p_upload, <<Entry(m_get, opErrorPage)>>),
       PathItem(p_widget, <<Entry(m_get, opNotFoundOnly)>>),
       PathItem(p_widget, <<Entry(m_get, opPageThenRef), Entry(m_post, opRefBody)>>),
       PathItem(p_ab, <<Entry(m_get, opRefParam)>>) >>
    \o [n \in DOMAIN SearchParams |->
           PathItem(p_search,
                    <<Entry(m_get, opSearch(SearchParams[n][1], SearchParams[n][2]))>>)]

\* Most paths of a document.
MaxPaths == 2

\* Most entries of an allOf list.
MaxAllOf == 2

\* Invocations of the synthesis on one document.
Runs == 2

SeqsUpTo(S, n) == UNION { [1..m -> S] : m \in 1..n }

DistinctPaths(paths) ==
    \A a, b \in DOMAIN paths : a # b => paths[a].path # paths[b].path

Document(paths, schemas) ==
    [paths |-> paths, components |-> <<[schemas |-> schemas]>>, definitions |-> <<>>]

\* An OpenAPI 2 document: the schema table is definitions.
LegacyDocument(paths, definitions) ==
    [paths |-> paths, components |-> <<>>, definitions |-> <<definitions>>]

\* A document without a schema table.
BareDocument(paths) == [paths |-> paths, components |-> <<>>, definitions |-> <<>>]

\* Positions of PathItems in the order listed or in the reverse order.
Monotone(positions) ==
    \/ \A a, b \in DOMAIN positions : a < b => positions[a] < positions[b]
    \/ \A a, b \in DOMAIN positions : a < b => positions[a] > positions[b]

PathsAt(positions) == [n \in DOMAIN positions |-> PathItems[positions[n]]]

PathDocs ==
    { Document(PathsAt(positions), BaseSchemas) :
        positions \in { ps \in SeqsUpTo(DOMAIN PathItems, MaxPaths) :
                           Monotone(ps) /\ DistinctPaths(PathsAt(ps)) } }

(***************************************************************************)
(* Documents whose schema table holds a composition: Combined declares      *)
(* properties of its own or none, and an allOf list over SubSchemas.        *)
(***************************************************************************)
SchemaA == Obj(<< <<f_id, Prim("string", "")>> >>, <<f_id>>)

SchemaB == Obj(<< <<f_name, Prim("string", "")>> >>, <<f_name>>)

SubSchemas ==
    { SchemaA, SchemaB,
      Obj(<< <<f_name, Prim("boolean", "")>>, <<f_id, Prim("integer", "")>> >>,
          <<f_name, f_id>>),
      SchemaRef(n_Widget),
      SchemaRef(n_Missing),
      Schema(<<>>, "object", "", << <<f_message, Prim("string", "")>> >>, <<f_message>>,
             <<>>, <<SchemaB>>) }

OwnParts ==
    { [properties |-> <<>>, required |-> <<>>],
      [properties |-> << <<f_id, Prim("boolean", "")>>, <<f_data, Arr(SchemaRef(n_Widget))>> >>,
       required |-> <<f_data, f_id>>] }

CombinedSchema(own, allOf) ==
    Schema(<<>>, "object", "", own.properties, own.required, <<>>, allOf)

SchemaDocs ==
    { Document(<<PathItem(p_widgets, <<Entry(m_post, opCreateWidget)>>)>>,
               << <<n_Widget, WidgetSchema>>,
                  <<n_Combined, CombinedSchema(own, allOf)>> >>) :
        own \in OwnParts, allOf \in SeqsUpTo(SubSchemas, MaxAllOf) }

(***************************************************************************)
(* Documents that differ in their schema table: under components.schemas,   *)
(* under definitions, or absent; with names that derive the model name of   *)
(* another schema (widget, Widget) or of an operation's model               *)
(* (ListWidgetsOut, CreateWidgetIn), with and without a description.        *)
(***************************************************************************)
\* Most schemas of a table.
MaxSchemas == 3

NamedSchemas ==
    { <<n_Widget, WidgetSchema>>,
      <<n_widget, Described(SchemaB, t_aWidget)>>,
      <<n_ListWidgetsOut, Described(SchemaA, t_aListing)>>,
      <<n_CreateWidgetIn, SchemaB>>,
      <<n_WidgetPage, Described(PageSchema, t_aListing)>> }

DistinctNames(table) ==
    \A a, b \in DOMAIN table : a # b => table[a][1] # table[b][1]

Tables == { t \in SeqsUpTo(NamedSchemas, MaxSchemas) : DistinctNames(t) }

TablePaths ==
    <<PathItem(p_widgets, <<Entry(m_get, opListWidgets), Entry(m_post, opCreateWidget)>>)>>

TableDocs ==
    { Document(TablePaths, t) : t \in Tables \cup {<<>>} }
    \cup { LegacyDocument(TablePaths, t) : t \in Tables }
    \cup { BareDocument(TablePaths) }

\* Page envelopes: totalCount and up to MaxDataProps of the properties below,
\* in every order of declaration; records is an array that declares no items.
MaxDataProps == 3

EnvelopeProperties ==
    { <<f_data, Arr(SchemaRef(n_Widget))>>,
      <<f_data, Prim("string", "")>>,
      <<f_records, Schema(<<>>, "array", "", <<>>, <<>>, <<>>, <<>>)>>,
      <<f_items, Arr(SchemaA)>>,
      <<f_results, Arr(SchemaB)>> }

Envelopes ==
    { Obj(<< <<f_totalCount, Prim("integer", "")>> >> \o declared, <<>>)
      : declared \in { d \in SeqsUpTo(EnvelopeProperties, MaxDataProps) \cup {<<>>}
                          : DistinctNames(d) } }

opPage(schema) ==
    Operation(id_pageWidgets, <<>>, <<>>, <<Response(s_200, <<schema>>, <<>>)>>)

PagePaths(schema) == <<PathItem(p_widgets, <<Entry(m_get, opPage(schema))>>)>>

EnvelopeDocs ==
    { Document(PagePaths(e), << <<n_Widget, WidgetSchema>> >>) : e \in Envelopes }
    \cup { Document(PagePaths(SchemaRef(n_WidgetPage)),
                    << <<n_Widget, WidgetSchema>>, <<n_WidgetPage, e>> >>)
           : e \in Envelopes }

\* Response schemas given by pointers that do and do not lead to a schema.
n_Alias == <<"A","l","i","a","s">>

Pointers ==
    { SchemaRef(n_Widget).ref,
      SchemaRef(n_Alias).ref,
      SchemaRef(n_Missing).ref,
      SchemaRef(s_constructor).ref,
      <<"#", "/">> \o s_definitions \o <<"/">> \o n_Widget,
      <<"o", ".", "j", "s", "o", "n", "#", "/">> \o s_components \o <<"/">>
          \o s_schemas \o <<"/">> \o n_Widget }

AliasTable ==
    << <<n_Widget, WidgetSchema>>, <<n_Alias, SchemaRef(n_Widget)>> >>

PointerDocs ==
    { Document(PagePaths(RefTo(pointer)), AliasTable) : pointer \in Pointers }
    \cup { LegacyDocument(PagePaths(RefTo(pointer)), AliasTable) : pointer \in Pointers }

\* Schemas that lead back to themselves: through the items of an array
\* property, through an object property, through allOf.
n_Node == <<"N","o","d","e">>

n_Tree == <<"T","r","e","e">>

n_Chain == <<"C","h","a","i","n">>

f_children == <<"c","h","i","l","d","r","e","n">>

f_parent == <<"p","a","r","e","n","t">>

NodeSchema == Obj(<< <<f_children, Arr(SchemaRef(n_Node))>> >>, <<>>)

TreeSchema ==
    Obj(<< <<f_name, Prim("string", "")>>,
           <<f_parent, Obj(<< <<f_parent, SchemaRef(n_Tree)>> >>, <<>>)>> >>, <<>>)

ChainSchema ==
    Schema(<<>>, "object", "", << <<f_id, Prim("string", "")>> >>, <<>>, <<>>,
           <<SchemaRef(n_Chain)>>)

CyclicSchemas ==
    { <<n_Node, NodeSchema>>, <<n_Tree, TreeSchema>>, <<n_Chain, ChainSchema>> }

CyclicTables ==
    { t \in SeqsUpTo(CyclicSchemas \cup {<<n_Widget, WidgetSchema>>}, 2) :
          DistinctNames(t) /\ \E n \in DOMAIN t : t[n] \in CyclicSchemas }

\* An operation that answers with the schema, and one that leaves the
\* schemas of the table to the standalone step.
CyclicPaths(name) ==
    <<PathItem(p_widgets,
               <<Entry(m_get, opListWidgets), Entry(m_post, opPage(SchemaRef(name)))>>)>>

CyclicDocs ==
    { Document(TablePaths, t) : t \in CyclicTables }
    \cup { Document(CyclicPaths(name), t)
           : name \in {n_Node, n_Tree, n_Chain, n_Widget}, t \in CyclicTables }

(***************************************************************************)
(* Documents whose paths carry {name} segments: a segment declared by the   *)
(* operation as an optional path parameter, a segment named by a query      *)
(* parameter only, a repeated segment, a segment declared on the path item, *)
(* a segment named __proto__, and braces that enclose no name.              *)
(***************************************************************************)
p_pair == <<"/","w","/","{","i","d","}","/","{","n","a","m","e","}","/","{","i","d","}">>

p_proto == <<"/","w","/","{","_","_","p","r","o","t","o","_","_","}">>

p_open == <<"/","w","/","{","}","/","{","i","d">>

opGetPair ==
    Operation(id_getItems,
              <<Param(f_id, "query", TRUE, "boolean"),
                DescribedParam(f_id, "path", FALSE, "integer", t_aWidget),
                Param(f_name, "query", TRUE, "boolean")>>,
              <<>>, <<Response(s_200, <<SchemaRef(n_Widget)>>, <<>>)>>)

opGetPlain ==
    Operation(id_getItems, <<>>, <<>>,
              <<Response(s_200, <<SchemaRef(n_Widget)>>, <<>>)>>)

ParamPaths ==
    { <<PathItem(p_pair, <<Entry(m_get, opGetPair)>>)>>,
      <<PathItem(p_widget, <<Entry(m_get, opGetPair)>>)>>,
      <<PathItem(p_widgets, <<Entry(m_get, opGetPair)>>)>>,
      <<PathItem(p_pair, <<Entry(m_get, opGetPlain)>>)>>,
      <<PathItem(p_widget,
                 <<Entry(m_parameters, <<InlineParam(f_id, "path", TRUE, "integer")>>),
                   Entry(m_get, opGetPlain)>>)>>,
      <<PathItem(p_proto, <<Entry(m_get, opGetPlain)>>)>>,
      <<PathItem(p_open, <<Entry(m_get, opGetPlain)>>)>> }

ParamDocs == { Document(paths, BaseSchemas) : paths \in ParamPaths }

Documents ==
    PathDocs \cup SchemaDocs \cup TableDocs \cup EnvelopeDocs \cup PointerDocs
    \cup CyclicDocs \cup ParamDocs

(***************************************************************************)
(* ValidationService.analyzeDocumentation: the two spreadsheets are read    *)
(* back and analysed.  A sheet row holds one cell per column, 0 or 1 text;  *)
(* an issue is [text, line, about] with line the line number of its prefix  *)
(* (0 when it has none) and about the names it carries, those joined by     *)
(* ", " as a list.  The checks on summary, tag and businessPurpose and the  *)
(* JSON.parse checks of the serialized columns read columns that are not    *)
(* represented; tagCount and coverage are left out.                         *)
(***************************************************************************)
s_undefined == <<"u","n","d","e","f","i","n","e","d">>

\* XLSX.utils.json_to_sheet writes no cell for a member that is undefined
Cell(value) == IF value = <<>> THEN <<>> ELSE <<value>>

\* String(row.column)
StringOf(cell) == IF cell = <<>> THEN s_undefined ELSE cell[1]

\* row.column ? String(row.column) : undefined
StringOrUndefined(cell) == IF cell # <<>> /\ cell[1] # <<>> THEN cell[1] ELSE <<>>

ApiRow(a) ==
    [sNo |-> a.sNo, endpoint |-> Cell(a.endpoint), method |-> Cell(a.method),
     operationId |-> Cell(a.operationId), pathParams |-> a.pathParams,
     queryParamsRef |-> Cell(a.queryParamsRef),
     requestBodyRef |-> Cell(a.requestBodyRef),
     responseBodyRef |-> Cell(a.responseBodyRef),
     isPaginated |-> a.isPaginated]

ModelRow(m) ==
    [sNo |-> m.sNo, modelName |-> Cell(m.modelName), properties |-> m.properties,
     required |-> m.required, description |-> Cell(m.description),
     usedInOperations |-> Cell(m.usedInOperations)]

ApiSheet(as) == [n \in DOMAIN as |-> ApiRow(as[n])]

ModelSheet(ms) == [n \in DOMAIN ms |-> ModelRow(ms[n])]

ReadApiRow(row) ==
    [sNo |-> row.sNo, endpoint |-> StringOf(row.endpoint),
     method |-> StringOf(row.method),
     operationId |-> StringOf(row.operationId), pathParams |-> row.pathParams,
     queryParamsRef |-> StringOrUndefined(row.queryParamsRef),
     requestBodyRef |-> StringOrUndefined(row.requestBodyRef),
     responseBodyRef |-> StringOrUndefined(row.responseBodyRef),
     isPaginated |-> row.isPaginated]

ReadModelRow(row) ==
    [sNo |-> row.sNo, modelName |-> StringOf(row.modelName),
     properties |-> row.properties, required |-> row.required,
     description |-> StringOrUndefined(row.description),
     usedInOperations |-> StringOrUndefined(row.usedInOperations)]

readApisFromExcel(sheet) == [n \in DOMAIN sheet |-> ReadApiRow(sheet[n])]

readModelsFromExcel(sheet) == [n \in DOMAIN sheet |-> ReadModelRow(sheet[n])]

Issue(text, line, about) == [text |-> text, line |-> line, about |-> about]

IssueIf(condition, text, line, about) ==
    IF condition THEN <<Issue(text, line, about)>> ELSE <<>>

validateApiDocumentation(a, lineNumber) ==
    IssueIf(a.endpoint = <<>>, "Missing endpoint", lineNumber, <<a.operationId>>)
    \o IssueIf(a.method = <<>>, "Missing HTTP method", lineNumber, <<a.operationId>>)
    \o IssueIf(a.operationId = <<>>, "Missing operationId",
               lineNumber, <<a.operationId>>)
    \o IssueIf(a.endpoint # <<>> /\ a.endpoint[1] # "/",
               "Endpoint should start with '/'", lineNumber, <<a.operationId>>)
    \o IssueIf(a.method # <<>> /\ ~Includes(HttpMethods, a.method),
               "Invalid HTTP method", lineNumber, <<a.operationId>>)
    \o IssueIf(Includes(a.endpoint, "{") /\ Includes(a.endpoint, "}")
                   /\ a.pathParams = <<>>,
               "Endpoint has path parameters but pathParams field is empty",
               lineNumber, <<a.operationId>>)
    \o IssueIf(a.isPaginated /\ a.method # <<"G","E","T">>,
               "Only GET operations should be marked as paginated",
               lineNumber, <<a.operationId>>)

\* modelName.match(/^[A-Z][a-zA-Z0-9]*Data$/)
MatchesModelNamePattern(modelName) ==
    /\ Len(modelName) >= 5
    /\ IsUpper(modelName[1])
    /\ \A n \in 2..(Len(modelName) - 4) : IsAlnum(modelName[n])
    /\ EndsWith(modelName, s_Data)

validateModelDocumentation(model, lineNumber) ==
    IssueIf(model.modelName = <<>>, "Missing model name",
            lineNumber, <<model.modelName>>)
    \o IssueIf(model.modelName # <<>> /\ ~MatchesModelNamePattern(model.modelName),
               "Model name should follow PascalCase and end with 'Data'",
               lineNumber, <<model.modelName>>)
    \o IssueIf(model.description = <<>>,
               "Missing description - AI context will be limited",
               lineNumber, <<model.modelName>>)

RECURSIVE ApiIssues(_, _)
ApiIssues(as, n) ==
    IF n > Len(as) THEN <<>>
    ELSE validateApiDocumentation(as[n], n) \o ApiIssues(as, n + 1)

RECURSIVE ModelIssues(_, _)
ModelIssues(ms, n) ==
    IF n > Len(ms) THEN <<>>
    ELSE validateModelDocumentation(ms[n], n) \o ModelIssues(ms, n + 1)

\* list.filter(Boolean)
IsTruthy(text) == text # <<>>

\* The entries that repeat the entry just before them.
AdjacentRepeats(list) ==
    LET Repeats[n \in 0..Len(list)] ==
            IF n = 0 THEN <<>>
            ELSE IF n > 1 /\ list[n - 1] = list[n]
            THEN Append(Repeats[n - 1], list[n])
            ELSE Repeats[n - 1]
    IN Repeats[Len(list)]

\* list.filter((x, index) => list.indexOf(x) !== index)
Duplicates(list) ==
    LET Repeats[n \in 0..Len(list)] ==
            IF n = 0 THEN <<>>
            ELSE IF \E m \in 1..(n - 1) : list[m] = list[n]
            THEN Append(Repeats[n - 1], list[n])
            ELSE Repeats[n - 1]
    IN Repeats[Len(list)]

\* if (duplicates.length > 0) issues.push(`${text}: ${[...new Set(duplicates)].join(', ')}`)
DuplicateIssue(text, duplicates) ==
    IssueIf(duplicates # <<>>, text, 0, UniqueInOrder(duplicates))

RefIssue(a, ref, modelNames, text) ==
    IssueIf(ref # <<>> /\ ref \notin modelNames, text, 0, <<a.operationId, ref>>)

RECURSIVE MissingRefIssues(_, _, _)
MissingRefIssues(as, modelNames, n) ==
    IF n > Len(as) THEN <<>>
    ELSE RefIssue(as[n], as[n].queryParamsRef, modelNames,
                  "Referenced query params model not found")
         \o RefIssue(as[n], as[n].requestBodyRef, modelNames,
                     "Referenced request body model not found")
         \o RefIssue(as[n], as[n].responseBodyRef, modelNames,
                     "Referenced response body model not found")
         \o MissingRefIssues(as, modelNames, n + 1)

UsedModels(as) ==
    UNION { {as[n].queryParamsRef, as[n].requestBodyRef, as[n].responseBodyRef}
            : n \in DOMAIN as } \ {<<>>}

RECURSIVE UnusedIssues(_, _, _)
UnusedIssues(ms, usedModels, n) ==
    IF n > Len(ms) THEN <<>>
    ELSE IssueIf(ms[n].modelName \notin usedModels /\ ms[n].usedInOperations = <<>>,
                 "Appears to be unused and has no usedInOperations reference",
                 0, <<ms[n].modelName>>)
         \o UnusedIssues(ms, usedModels, n + 1)

\* usedInOperations.split(',').map(op => op.trim())
RECURSIVE SplitComma(_, _, _, _)
SplitComma(s, n, parts, cur) ==
    IF n > Len(s) THEN Append(parts, cur)
    ELSE IF s[n] = "," THEN SplitComma(s, n + 1, Append(parts, cur), <<>>)
    ELSE SplitComma(s, n + 1, parts, Append(cur, s[n]))

RECURSIVE Trim(_)
Trim(s) ==
    IF s # <<>> /\ s[1] = " " THEN Trim(Tail(s))
    ELSE IF s # <<>> /\ s[Len(s)] = " " THEN Trim(SubSeq(s, 1, Len(s) - 1))
    ELSE s

RECURSIVE UnknownOf(_, _, _, _)
UnknownOf(model, operations, ids, n) ==
    IF n > Len(operations) THEN <<>>
    ELSE IssueIf(Trim(operations[n]) \notin ids, "References unknown operation",
                 0, <<model.modelName, Trim(operations[n])>>)
         \o UnknownOf(model, operations, ids, n + 1)

RECURSIVE UnknownOperationIssues(_, _, _)
UnknownOperationIssues(ms, ids, n) ==
    IF n > Len(ms) THEN <<>>
    ELSE (IF ms[n].usedInOperations # <<>>
          THEN UnknownOf(ms[n], SplitComma(ms[n].usedInOperations, 1, <<>>, <<>>),
                         ids, 1)
          ELSE <<>>)
         \o UnknownOperationIssues(ms, ids, n + 1)

validateCrossReferences(as, ms) ==
    MissingRefIssues(as, { ms[n].modelName : n \in DOMAIN ms }, 1)
    \o UnusedIssues(ms, UsedModels(as), 1)
    \o DuplicateIssue("Duplicate operation IDs found",
           Duplicates(SelectSeq([n \in DOMAIN as |-> as[n].operationId], IsTruthy)))
    \o DuplicateIssue("Duplicate model names found",
           Duplicates(SelectSeq([n \in DOMAIN ms |-> ms[n].modelName], IsTruthy)))
    \o UnknownOperationIssues(ms, { as[n].operationId : n \in DOMAIN as }, 1)

\* issues: [...new Set(issues)]
performAnalysis(as, ms) ==
    [apiCount |-> Len(as), modelCount |-> Len(ms),
     issues |-> UniqueInOrder(ApiIssues(as, 1) \o ModelIssues(ms, 1)
                              \o validateCrossReferences(as, ms))]

(***************************************************************************)
(* extractDocumentationData as a state machine: one step per pass of the    *)
(* loop over the (path, method) entries, one for the standalone models,     *)
(* one for numbering and return.                                            *)
(***************************************************************************)
VARIABLES
    api,          \* the parsed document handed to generateDocuments
    pc,           \* "idle", "paths", "number", "writeApis", "writeModels"
    k,            \* position of the loop in Entries(api)
    apiIndex,     \* let apiIndex
    apis,         \* const apis
    models,       \* const models
    seenModels,   \* const seenModels
    returned,     \* const { apis, models } of generateDocuments, 0 or 1
    written,      \* the files the invocation wrote, <<name, rows>> in order
    thrown,       \* the error the invocation ended in, "none" when it has none
    results,      \* what each finished extraction returned, in order
    configFile,   \* .generator-cli.json, 0 or 1 configuration
    command,      \* the last config command, <<key, value>>, or <<>>
    outcome,      \* how the last config command ended
    commands,     \* the config commands run
    documentation, \* what the analyze command read, 0 or 1 { apis, models }
    analysis      \* the DocumentationAnalysis it returned, 0 or 1

docVars ==
    <<api, pc, k, apiIndex, apis, models, seenModels, returned, written, thrown,
      results>>

configVars == <<configFile, command, outcome, commands>>

analysisVars == <<documentation, analysis>>

vars == <<docVars, configVars, analysisVars>>

RECURSIVE ItemEntries(_, _, _)
ItemEntries(path, item, n) ==
    IF n > Len(item) THEN <<>>
    ELSE <<[path |-> path, method |-> item[n].method,
            operation |-> item[n].operation]>>
         \o ItemEntries(path, item, n + 1)

RECURSIVE PathEntries(_, _)
PathEntries(paths, n) ==
    IF n > Len(paths) THEN <<>>
    ELSE ItemEntries(paths[n].path, paths[n].item, 1) \o PathEntries(paths, n + 1)

\* The (path, method, operation) triples in the order the nested loops visit them.
Entries(doc) == PathEntries(doc.paths, 1)

\* A set that remembers the names of an earlier invocation.
KeepSeenModels(previous) == previous

\* const seenModels = new Set<string>()
NewSeenModels(previous) == {}

DocInit ==
    /\ pc = "idle"
    /\ k = 1
    /\ apiIndex = 1
    /\ apis = <<>>
    /\ models = <<>>
    /\ seenModels = {}
    /\ returned = <<>>
    /\ written = <<>>
    /\ thrown = "none"
    /\ results = <<>>

ConfigInit ==
    /\ configFile = <<>>
    /\ command = <<>>
    /\ outcome = "none"
    /\ commands = 0

AnalysisInit ==
    /\ documentation = <<>>
    /\ analysis = <<>>

Init ==
    /\ api \in Documents
    /\ DocInit
    /\ ConfigInit
    /\ AnalysisInit

\* generateDocuments up to the first pass of the loop.
Invoke ==
    /\ pc = "idle"
    /\ Len(results) < Runs
    /\ apis' = <<>>
    /\ models' = <<>>
    /\ seenModels' = NewSeenModels(seenModels)
    /\ apiIndex' = 1
    /\ k' = 1
    /\ returned' = <<>>
    /\ written' = <<>>
    /\ thrown' = "none"
    /\ pc' = "paths"
    /\ documentation' = <<>>
    /\ analysis' = <<>>
    /\ UNCHANGED <<api, results, configVars>>

SkipEntry ==
    /\ pc = "paths"
    /\ k <= Len(Entries(api))
    /\ ~isValidHttpMethod(Entries(api)[k].method)
    /\ k' = k + 1
    /\ UNCHANGED <<api, pc, apiIndex, apis, models, seenModels, returned, written,
                   thrown, results, configVars, analysisVars>>

\* models.push(...extracted.models), with the set as the extraction left it
PushModels(extracted) ==
    /\ models' = models \o extracted.models
    /\ seenModels' = extracted.seenModels

ProcessEntry(e) ==
    /\ apis' = Append(apis, createApiDocumentation(apiIndex, e.path, e.method,
                                                   e.operation, api))
    /\ apiIndex' = apiIndex + 1
    /\ PushModels(extractModelsFromOperation(e.operation, api, seenModels))

ProcessOperation ==
    /\ pc = "paths"
    /\ k <= Len(Entries(api))
    /\ isValidHttpMethod(Entries(api)[k].method)
    /\ ~ApiDocThrows(Entries(api)[k].operation)
    /\ ~BodyReadThrows(Entries(api)[k].operation)
    /\ ~ModelsOverflow(Entries(api)[k].operation, api)
    /\ ProcessEntry(Entries(api)[k])
    /\ k' = k + 1
    /\ UNCHANGED <<api, pc, returned, written, thrown, results, configVars,
                   analysisVars>>

\* createApiDocumentation throws: nothing of the entry was pushed, and the
\* error leaves extractDocumentationData and generateDocuments.
ThrowInApiDoc ==
    /\ pc = "paths"
    /\ k <= Len(Entries(api))
    /\ isValidHttpMethod(Entries(api)[k].method)
    /\ ApiDocThrows(Entries(api)[k].operation)
    /\ thrown' = "TypeError"
    /\ pc' = "idle"
    /\ UNCHANGED <<api, k, apiIndex, apis, models, seenModels, returned, written,
                   results, configVars, analysisVars>>

\* The set after the query-parameter model of the operation was pushed.
SeenAfterQueryModel(operation, seen) ==
    PushUnseen([models |-> <<>>, seenModels |-> seen],
               IF hasQueryParams(operation)
               THEN createQueryParamsModel(operation, operation.operationId)
               ELSE <<>>,
               1).seenModels

\* The API record was pushed; createRequestBodyModel throws, the models of
\* the operation are lost with the local array of extractModelsFromOperation.
ThrowInModels ==
    /\ pc = "paths"
    /\ k <= Len(Entries(api))
    /\ isValidHttpMethod(Entries(api)[k].method)
    /\ ~ApiDocThrows(Entries(api)[k].operation)
    /\ BodyReadThrows(Entries(api)[k].operation)
    /\ apis' = Append(apis, createApiDocumentation(apiIndex, Entries(api)[k].path,
                                                   Entries(api)[k].method,
                                                   Entries(api)[k].operation, api))
    /\ apiIndex' = apiIndex + 1
    /\ seenModels' = SeenAfterQueryModel(Entries(api)[k].operation, seenModels)
    /\ thrown' = "TypeError"
    /\ pc' = "idle"
    /\ UNCHANGED <<api, k, models, returned, written, results, configVars,
                   analysisVars>>

\* The API record was pushed; an expansion under extractModelsFromOperation
\* outgrows the stack and the RangeError leaves generateDocuments.
OverflowInModels ==
    /\ pc = "paths"
    /\ k <= Len(Entries(api))
    /\ isValidHttpMethod(Entries(api)[k].method)
    /\ ~ApiDocThrows(Entries(api)[k].operation)
    /\ ~BodyReadThrows(Entries(api)[k].operation)
    /\ ModelsOverflow(Entries(api)[k].operation, api)
    /\ apis' = Append(apis, createApiDocumentation(apiIndex, Entries(api)[k].path,
                                                   Entries(api)[k].method,
                                                   Entries(api)[k].operation, api))
    /\ apiIndex' = apiIndex + 1
    /\ seenModels' = SeenAtOverflow(Entries(api)[k].operation, api, seenModels)
    /\ thrown' = "RangeError"
    /\ pc' = "idle"
    /\ UNCHANGED <<api, k, models, returned, written, results, configVars,
                   analysisVars>>

\* A traversal that gives up the standalone models and goes on to return.
SkipStandalone ==
    /\ pc = "paths"
    /\ k > Len(Entries(api))
    /\ StandaloneOverflows(api, seenModels)
    /\ pc' = "number"
    /\ UNCHANGED <<api, k, apiIndex, apis, models, seenModels, returned, written,
                   thrown, results, configVars, analysisVars>>

\* An expansion under extractStandaloneModels outgrows the stack.
OverflowInStandalone ==
    /\ pc = "paths"
    /\ k > Len(Entries(api))
    /\ StandaloneOverflows(api, seenModels)
    /\ seenModels' = SeenBefore(SchemaTable(api), api,
                                FirstOverflowing(SchemaTable(api), api, 1, seenModels),
                                seenModels)
    /\ thrown' = "RangeError"
    /\ pc' = "idle"
    /\ UNCHANGED <<api, k, apiIndex, apis, models, returned, written, results,
                   configVars, analysisVars>>

Standalone ==
    /\ pc = "paths"
    /\ k > Len(Entries(api))
    /\ ~StandaloneOverflows(api, seenModels)
    /\ PushModels(extractStandaloneModels(api, seenModels))
    /\ pc' = "number"
    /\ UNCHANGED <<api, k, apiIndex, apis, returned, written, thrown, results,
                   configVars, analysisVars>>

\* A numbering by the 0-based index.
NumberFromZero(ms) == [n \in DOMAIN ms |-> [ms[n] EXCEPT !.sNo = n - 1]]

\* models.forEach((model, index) => { model.sNo = index + 1 })
AssignNumbers(ms) == [n \in DOMAIN ms |-> [ms[n] EXCEPT !.sNo = n]]

\* return { apis, models }, received by generateDocuments
Return(as, ms) ==
    /\ models' = ms
    /\ returned' = <<[apis |-> as, models |-> ms]>>
    /\ results' = Append(results, [apis |-> as, models |-> ms])

NumberAndReturn ==
    /\ pc = "number"
    /\ Return(apis, AssignNumbers(models))
    /\ pc' = "writeApis"
    /\ UNCHANGED <<api, k, apiIndex, apis, seenModels, written, thrown, configVars,
                   analysisVars>>

\* A write of the API rows while the traversal is still under way.
WriteApisEarly ==
    /\ pc = "paths"
    /\ written = <<>>
    /\ written' = <<<<"apis.xlsx", apis>>>>
    /\ UNCHANGED <<api, pc, k, apiIndex, apis, models, seenModels, returned, thrown,
                   results, configVars, analysisVars>>

\* generateApisSpreadsheet(apis, join(outputDir, 'apis.xlsx'))
WriteApis ==
    /\ pc = "writeApis"
    /\ written' = Append(written, <<"apis.xlsx", returned[1].apis>>)
    /\ pc' = "writeModels"
    /\ UNCHANGED <<api, k, apiIndex, apis, models, seenModels, returned, thrown,
                   results, configVars, analysisVars>>

\* generateModelsSpreadsheet(models, join(outputDir, 'models.xlsx'))
WriteModels ==
    /\ pc = "writeModels"
    /\ written' = Append(written, <<"models.xlsx", returned[1].models>>)
    /\ pc' = "idle"
    /\ UNCHANGED <<api, k, apiIndex, apis, models, seenModels, returned, thrown,
                   results, configVars, analysisVars>>

\* XLSX.writeFile fails: the writer throws a FileOperationError.
WriteFails ==
    /\ pc \in {"writeApis", "writeModels"}
    /\ thrown' = "FileOperationError"
    /\ pc' = "idle"
    /\ UNCHANGED <<api, k, apiIndex, apis, models, seenModels, returned, written,
                   results, configVars, analysisVars>>

\* return this.performAnalysis(apis, models)
Analyzed(apiRecords, modelRecords) ==
    /\ documentation' = <<[apis |-> apiRecords, models |-> modelRecords]>>
    /\ analysis' = <<performAnalysis(apiRecords, modelRecords)>>

\* analyzeDocumentation on the two files of the output directory
analyzeDocumentation(apiSheet, modelSheet) ==
    Analyzed(readApisFromExcel(apiSheet), readModelsFromExcel(modelSheet))

\* generator-cli analyze after a finished generate-docs, the files as written
AnalyzeWritten ==
    /\ pc = "idle"
    /\ Len(written) = 2
    /\ analyzeDocumentation(ApiSheet(written[1][2]), ModelSheet(written[2][2]))
    /\ UNCHANGED <<docVars, configVars>>

\* XLSX.readFile fails on a file that was not written: readApisFromExcel or
\* readModelsFromExcel throws and analyzeDocumentation a ValidationError.
AnalyzeMissing ==
    /\ pc = "idle"
    /\ Len(written) < 2
    /\ thrown' = "ValidationError"
    /\ documentation' = <<>>
    /\ analysis' = <<>>
    /\ UNCHANGED <<api, pc, k, apiIndex, apis, models, seenModels, returned, written,
                   results, configVars>>

Next ==
    \/ Invoke
    \/ SkipEntry
    \/ ProcessOperation
    \/ ThrowInApiDoc
    \/ ThrowInModels
    \/ OverflowInModels
    \/ Standalone
    \/ OverflowInStandalone
    \/ NumberAndReturn
    \/ WriteApis
    \/ WriteModels
    \/ WriteFails
    \/ AnalyzeWritten
    \/ AnalyzeMissing

Spec == Init /\ [][Next]_vars

(***************************************************************************)
(* ConfigurationService: config set <key> <value> and config init.  Keys    *)
(* are compared as a whole and are TLA+ strings; values are character       *)
(* sequences, booleans once parsed.  The configuration is a record over     *)
(* the keys of ConfigSchema.                                                *)
(***************************************************************************)
v_output == <<".","/","o","u","t","p","u","t">>

v_templates == <<".","/","t","e","m","p","l","a","t","e","s">>

v_documents == <<".","/","d","o","c","u","m","e","n","t","s">>

v_kebab == <<"k","e","b","a","b","-","c","a","s","e">>

v_camel == <<"c","a","m","e","l","C","a","s","e">>

v_Pascal == <<"P","a","s","c","a","l","C","a","s","e">>

v_true == <<"t","r","u","e">>

\* Object.keys(ConfigSchema.shape)
ConfigKeys ==
    {"outputDir", "templateDir", "documentsDir", "namingConvention",
     "generateTypes", "generateServices", "generateQueries", "generateConstants"}

BooleanKeys ==
    {"generateTypes", "generateServices", "generateQueries", "generateConstants"}

NamingConventions == {v_kebab, v_camel, v_Pascal}

\* ConfigSchema.parse({})
DefaultConfig ==
    [outputDir |-> v_output, templateDir |-> v_templates, documentsDir |-> v_documents,
     namingConvention |-> v_kebab, generateTypes |-> TRUE, generateServices |-> TRUE,
     generateQueries |-> TRUE, generateConstants |-> TRUE]

\* The keys the README names for config set and as configuration options.
DocumentedKeys ==
    {"outputDirectory", "defaultTemplate", "swaggerUrl", "templatePath",
     "fileNamingConvention"}

\* The keys and values of the commands run.
CommandKeys == ConfigKeys \cup DocumentedKeys

CommandValues ==
    { <<".","/","g","e","n","e","r","a","t","e","d">>,
      <<"m","o","d","e","r","n">>,
      <<"T","R","U","E">>,
      <<"c","a","m","e","l","C","a","s","e">>,
      <<"s","n","a","k","e","_","c","a","s","e">> }

\* Most config commands run.
MaxCommands == 2

\* The search is taken to find the file setConfig and config init write.
getConfig == IF configFile # <<>> THEN configFile[1] ELSE DefaultConfig

\* [error, value]: the error thrown ("none" when none) and the value returned.
parseConfigValue(key, value) ==
    IF key \notin ConfigKeys
    THEN [error |-> "Unknown configuration key", value |-> value]
    ELSE IF key \in BooleanKeys
    THEN [error |-> "none", value |-> (toLowerCase(value) = v_true)]
    ELSE IF key = "namingConvention" /\ value \notin NamingConventions
    THEN [error |-> "Invalid naming convention", value |-> value]
    ELSE [error |-> "none", value |-> value]

\* ConfigSchema.parse(updatedConfig) accepts the configuration.
SchemaAccepts(config) ==
    /\ config.namingConvention \in NamingConventions
    /\ \A key \in BooleanKeys : config[key] \in BOOLEAN

\* { ...currentConfig, [key]: parsedValue }, validated and written.
WriteUpdated(updatedConfig) ==
    IF SchemaAccepts(updatedConfig)
    THEN configFile' = <<updatedConfig>> /\ outcome' = "updated"
    ELSE configFile' = configFile /\ outcome' = "ZodError"

SetParsed(key, parsed, currentConfig) ==
    IF parsed.error # "none"
    THEN configFile' = configFile /\ outcome' = parsed.error
    ELSE WriteUpdated([currentConfig EXCEPT ![key] = parsed.value])

setConfig(key, value) == SetParsed(key, parseConfigValue(key, value), getConfig)

SetConfig ==
    /\ commands < MaxCommands
    /\ \E key \in CommandKeys, value \in CommandValues :
           /\ setConfig(key, value)
           /\ command' = <<key, value>>
    /\ commands' = commands + 1
    /\ UNCHANGED <<docVars, analysisVars>>

InitializeDefault ==
    /\ commands < MaxCommands
    /\ configFile' = <<DefaultConfig>>
    /\ command' = <<>>
    /\ outcome' = "initialized"
    /\ commands' = commands + 1
    /\ UNCHANGED <<docVars, analysisVars>>

ConfigSpecInit ==
    /\ api = BareDocument(<<>>)
    /\ DocInit
    /\ ConfigInit
    /\ AnalysisInit

ConfigNext ==
    \/ SetConfig
    \/ InitializeDefault

ConfigSpec == ConfigSpecInit /\ [][ConfigNext]_vars

(***************************************************************************)
(* generator-cli analyze on spreadsheets that were edited by hand: the      *)
(* rows are drawn from the cells below.                                     *)
(***************************************************************************)
n_WidgetData == <<"W","i","d","g","e","t","D","a","t","a">>

\* Most rows of an edited sheet.
MaxRows == 3

\* no cell, a cell with the empty text, two ids
OperationIdCells == {<<>>, <<<<>>>>, <<id_getItems>>, <<id_listWidgets>>}

ModelNameCells == {<<>>, <<n_WidgetData>>, <<n_Widget>>}

EditedApiRows ==
    { [sNo |-> 1, endpoint |-> <<p_items>>, method |-> <<m_GET>>, operationId |-> id,
       pathParams |-> <<>>, queryParamsRef |-> <<>>, requestBodyRef |-> <<>>, responseBodyRef |-> <<>>,
       isPaginated |-> FALSE] : id \in OperationIdCells }

EditedModelRows ==
    { [sNo |-> 1, modelName |-> name, properties |-> <<>>, required |-> <<>>,
       description |-> <<t_aWidget>>, usedInOperations |-> <<id_getItems>>]
      : name \in ModelNameCells }

EditedApiSheets == SeqsUpTo(EditedApiRows, MaxRows) \cup {<<>>}

EditedModelSheets == SeqsUpTo(EditedModelRows, MaxRows) \cup {<<>>}

\* The command is run once.
AnalyzeEdited ==
    /\ documentation = <<>>
    /\ \E apiSheet \in EditedApiSheets, modelSheet \in EditedModelSheets :
           analyzeDocumentation(apiSheet, modelSheet)
    /\ UNCHANGED <<docVars, configVars>>

AnalysisSpecInit ==
    /\ api = BareDocument(<<>>)
    /\ DocInit
    /\ ConfigInit
    /\ AnalysisInit

AnalysisNext == AnalyzeEdited

AnalysisSpec == AnalysisSpecInit /\ [][AnalysisNext]_vars

(***************************************************************************)
(* What the properties below speak about.                                   *)
(***************************************************************************)
IsValidEntry(e) == isValidHttpMethod(e.method)

\* The entries that get an API record; record j of a result belongs to entry j.
ValidEntries(doc) == SelectSeq(Entries(doc), IsValidEntry)

ModelNames(ms) == { ms[n].modelName : n \in DOMAIN ms }

OperationIds(as) == { as[n].operationId : n \in DOMAIN as }

HasModel(ms, modelName) == \E n \in DOMAIN ms : ms[n].modelName = modelName

ModelNamed(ms, modelName) == ms[CHOOSE n \in DOMAIN ms : ms[n].modelName = modelName]

NoRepeat(s) == \A a, b \in DOMAIN s : a # b => s[a] # s[b]

\* The success responses of an operation that carry a JSON schema.
SuccessJson(operation) ==
    { n \in DOMAIN operation.responses :
        /\ IsSuccessStatus(operation.responses[n].status)
        /\ operation.responses[n].json # <<>> }

(***************************************************************************)
(* C1: in every returned apis array no two records have the same            *)
(* operationId, declared or synthesized.                                    *)
(***************************************************************************)
C1_OperationIdsUnique ==
    \A r \in DOMAIN results :
        \A a, b \in DOMAIN results[r].apis :
            a # b => results[r].apis[a].operationId # results[r].apis[b].operationId

(***************************************************************************)
(* C2: in every returned models array no two records have the same          *)
(* modelName.                                                               *)
(***************************************************************************)
C2_ModelNamesUnique ==
    \A r \in DOMAIN results :
        \A a, b \in DOMAIN results[r].models :
            a # b => results[r].models[a].modelName # results[r].models[b].modelName

\* A result for a document in which one operation has two success responses
\* with a JSON schema, so that two candidates derive the same OutData name.
C2_Witness ==
    /\ results # <<>>
    /\ \E n \in DOMAIN ValidEntries(api) :
           /\ ValidEntries(api)[n].operation.operationId # <<>>
           /\ Cardinality(SuccessJson(ValidEntries(api)[n].operation)) >= 2
           /\ HasModel(results[1].models,
                       pascalCase(ValidEntries(api)[n].operation.operationId)
                           \o s_OutData)

(***************************************************************************)
(* C3: every usedInOperations value of a returned model is the operationId  *)
(* of a record of the returned apis array.                                  *)
(***************************************************************************)
C3_UsedInOperationsExist ==
    \A r \in DOMAIN results :
        \A n \in DOMAIN results[r].models :
            results[r].models[n].usedInOperations # <<>>
                => results[r].models[n].usedInOperations
                       \in OperationIds(results[r].apis)

(***************************************************************************)
(* C4: every queryParamsRef, requestBodyRef and responseBodyRef present in  *)
(* a returned API record is the modelName of a returned model.              *)
(***************************************************************************)
RefsOf(a) == {a.queryParamsRef, a.requestBodyRef, a.responseBodyRef} \ {<<>>}

C4_RefsNameModels ==
    \A r \in DOMAIN results :
        \A n \in DOMAIN results[r].apis :
            RefsOf(results[r].apis[n]) \subseteq ModelNames(results[r].models)

(***************************************************************************)
(* C5: an operation with a query parameter has a model named                *)
(* PascalCase(operationId) + "QueryParams" for the operationId of its API   *)
(* record; GET /items with page and limit and no declared operationId       *)
(* yields getItems, GetItemsQueryParams {page: number, limit: number} with  *)
(* no required list, and isPaginated.                                       *)
(***************************************************************************)
NumberProperty == Property("number", <<>>, <<>>, <<>>)

C5_ItemsExample(a, ms) ==
    /\ a.operationId = <<"g","e","t","I","t","e","m","s">>
    /\ a.isPaginated
    /\ HasModel(ms, pascalCase(a.operationId) \o s_QueryParams)
    /\ ModelNamed(ms, pascalCase(a.operationId) \o s_QueryParams).properties
           = << <<q_page, NumberProperty>>, <<q_limit, NumberProperty>> >>
    /\ ModelNamed(ms, pascalCase(a.operationId) \o s_QueryParams).required = <<>>

C5_QueryParamsModelNamed ==
    \A r \in DOMAIN results :
        \A n \in DOMAIN results[r].apis :
            /\ hasQueryParams(ValidEntries(api)[n].operation)
                   => HasModel(results[r].models,
                               pascalCase(results[r].apis[n].operationId)
                                   \o s_QueryParams)
            /\ (/\ ValidEntries(api)[n].path = p_items
                /\ ValidEntries(api)[n].operation = opListNoId)
                   => C5_ItemsExample(results[r].apis[n], results[r].models)

(***************************************************************************)
(* C6: every invocation on the same document returns the same apis and      *)
(* models arrays.                                                           *)
(***************************************************************************)
C6_RunsAgree ==
    \A a, b \in DOMAIN results : results[a] = results[b]

C6_Witness ==
    /\ Len(results) >= 2
    /\ results[2].apis # <<>>
    /\ Len(results[2].models) >= 4

(***************************************************************************)
(* C7: an operation with a success JSON response whose schema resolves to   *)
(* an object with data (an array of Widget) and totalCount gets an OutData  *)
(* model with data and totalCount, a RecordData model with Widget's         *)
(* properties, and isPaginated = TRUE.                                      *)
(***************************************************************************)
IsPageOfWidgets(schema) ==
    /\ schema.type = "object"
    /\ Keys(schema.properties) = <<f_data, f_totalCount>>
    /\ Get(schema.properties, f_data) = Arr(SchemaRef(n_Widget))

HasPageResponse(operation, doc) ==
    \E n \in SuccessJson(operation) :
        IsPageOfWidgets(resolveSchema(operation.responses[n].json[1], doc))

C7_PageModels(a, ms, doc) ==
    /\ a.isPaginated
    /\ HasModel(ms, pascalCase(a.operationId) \o s_OutData)
    /\ HasModel(ms, pascalCase(a.operationId) \o s_RecordData)
    /\ Keys(ModelNamed(ms, pascalCase(a.operationId) \o s_OutData).properties)
           = <<f_data, f_totalCount>>
    /\ ModelNamed(ms, pascalCase(a.operationId) \o s_RecordData).properties
           = extractSchemaProperties(WidgetSchema, doc).properties

C7_PaginatedResponse ==
    \A r \in DOMAIN results :
        \A n \in DOMAIN results[r].apis :
            HasPageResponse(ValidEntries(api)[n].operation, api)
                => C7_PageModels(results[r].apis[n], results[r].models, api)

(***************************************************************************)
(* C8: for a schema with an allOf list, extractSchemaProperties returns the *)
(* union of the properties of the schema and of the resolved entries, a     *)
(* name declared several times taking the value of the latest entry that    *)
(* declares it, and as required list the duplicate-free union of all        *)
(* required names; allOf [A, B] yields {id, name} and [id, name].           *)
(***************************************************************************)
HasCombined(doc) == HasKey(SchemaTable(doc), n_Combined)

Combined(doc) == Get(SchemaTable(doc), n_Combined)

\* What the schema itself and each allOf entry contribute, in merge order.
Parts(schema, doc) ==
    <<extractSchemaProperties([schema EXCEPT !.allOf = <<>>], doc)>>
    \o [n \in DOMAIN schema.allOf |->
           extractSchemaProperties(resolveSchema(schema.allOf[n], doc), doc)]

Declares(part, name) == HasKey(part.properties, name)

LatestDeclaring(parts, name) ==
    CHOOSE n \in DOMAIN parts :
        /\ Declares(parts[n], name)
        /\ \A m \in DOMAIN parts : Declares(parts[m], name) => m <= n

IsMergeOf(extracted, parts) ==
    /\ Range(Keys(extracted.properties))
           = UNION { Range(Keys(parts[n].properties)) : n \in DOMAIN parts }
    /\ NoRepeat(Keys(extracted.properties))
    /\ \A name \in Range(Keys(extracted.properties)) :
           Get(extracted.properties, name)
               = Get(parts[LatestDeclaring(parts, name)].properties, name)
    /\ Range(extracted.required)
           = UNION { Range(parts[n].required) : n \in DOMAIN parts }
    /\ NoRepeat(extracted.required)

StringProperty == Property("string", <<>>, <<>>, <<>>)

C8_AllOfMerged ==
    \A r \in DOMAIN results :
        HasCombined(api) =>
            /\ HasModel(results[r].models, pascalCase(n_Combined) \o s_Data)
            /\ IsMergeOf(ModelNamed(results[r].models, pascalCase(n_Combined) \o s_Data),
                         Parts(Combined(api), api))
            /\ (Combined(api) = CombinedSchema([properties |-> <<>>, required |-> <<>>],
                                               <<SchemaA, SchemaB>>))
                   => /\ ModelNamed(results[r].models,
                                    pascalCase(n_Combined) \o s_Data).properties
                          = << <<f_id, StringProperty>>, <<f_name, StringProperty>> >>
                      /\ ModelNamed(results[r].models,
                                    pascalCase(n_Combined) \o s_Data).required
                          = <<f_id, f_name>>

\* A result for a composition whose two entries declare the same property
\* name with different types and repeat a required name.
C8_Witness ==
    /\ results # <<>>
    /\ HasCombined(api)
    /\ Len(Combined(api).allOf) = 2
    /\ \E name \in Range(Keys(Parts(Combined(api), api)[2].properties)) :
           /\ Declares(Parts(Combined(api), api)[3], name)
           /\ Get(Parts(Combined(api), api)[2].properties, name)
                  # Get(Parts(Combined(api), api)[3].properties, name)
           /\ name \in Range(Parts(Combined(api), api)[2].required)
           /\ name \in Range(Parts(Combined(api), api)[3].required)
    /\ HasModel(results[1].models, pascalCase(n_Combined) \o s_Data)

(***************************************************************************)
(* C9: an operation whose request body's JSON schema is a $ref that does    *)
(* not resolve still gets its request-body model, named after the           *)
(* operationId of its API record, with no properties and no required list.  *)
(***************************************************************************)
HasUnresolvableBody(operation, doc) ==
    /\ operation.requestBody # <<>>
    /\ operation.requestBody[1].json # <<>>
    /\ operation.requestBody[1].json[1].ref # <<>>
    /\ resolveSchema(operation.requestBody[1].json[1], doc)
           = operation.requestBody[1].json[1]

C9_EmptyBodyModel(a, ms) ==
    /\ HasModel(ms, pascalCase(a.operationId) \o s_InData)
    /\ ModelNamed(ms, pascalCase(a.operationId) \o s_InData).properties = <<>>
    /\ ModelNamed(ms, pascalCase(a.operationId) \o s_InData).required = <<>>

C9_UnresolvableBodyRef ==
    \A r \in DOMAIN results :
        \A n \in DOMAIN results[r].apis :
            HasUnresolvableBody(ValidEntries(api)[n].operation, api)
                => C9_EmptyBodyModel(results[r].apis[n], results[r].models)

(***************************************************************************)
(* C10: an operation with a parameter whose name equals, ignoring case, one *)
(* of page, offset, limit, size, pageSize, pageNumber has isPaginated =     *)
(* TRUE.                                                                    *)
(***************************************************************************)
NamedLikePageParam(param) ==
    \E n \in DOMAIN PageParamNames :
        toLowerCase(param.name) = toLowerCase(PageParamNames[n])

C10_PageParamsPaginate ==
    \A r \in DOMAIN results :
        \A n \in DOMAIN results[r].apis :
            (\E q \in DOMAIN ValidEntries(api)[n].operation.parameters :
                 NamedLikePageParam(ValidEntries(api)[n].operation.parameters[q]))
                => results[r].apis[n].isPaginated

(***************************************************************************)
(* C11: an operation with no pagination-named parameter has isPaginated =   *)
(* TRUE exactly when the schema of one of its success (2xx) responses,      *)
(* inline or reached through a $ref, has a property named, ignoring case,   *)
(* totalCount, totalPages, page, pageSize, hasNext or hasPrevious; the      *)
(* schemas of other responses do not count.                                 *)
(***************************************************************************)
NoPageNamedParam(operation) ==
    \A q \in DOMAIN operation.parameters :
        ~NamedLikePageParam(operation.parameters[q])

HasPaginationField(schema) ==
    \E p \in DOMAIN schema.properties :
        \E f \in DOMAIN PaginationFields :
            toLowerCase(schema.properties[p][1]) = toLowerCase(PaginationFields[f])

SuccessHasPaginationField(operation, doc) ==
    \E n \in DOMAIN operation.responses :
        /\ IsSuccessStatus(operation.responses[n].status)
        /\ ResponseSchema(operation.responses[n]) # <<>>
        /\ HasPaginationField(
               resolveSchema(ResponseSchema(operation.responses[n])[1], doc))

C11_ResponsePagination ==
    \A r \in DOMAIN results :
        \A n \in DOMAIN results[r].apis :
            NoPageNamedParam(ValidEntries(api)[n].operation)
                => (results[r].apis[n].isPaginated
                       <=> SuccessHasPaginationField(ValidEntries(api)[n].operation, api))
(***************************************************************************)
(* C12: an operation gets a request-body model named                        *)
(* PascalCase(operationId) + "InData", for the operationId of its API       *)
(* record, if and only if its request body has an application/json content  *)
(* entry, whether the operationId is declared or synthesized.               *)
(***************************************************************************)
HasJsonBody(operation) ==
    /\ operation.requestBody # <<>>
    /\ operation.requestBody[1].json # <<>>

\* A model of that name recorded for the operation of record a.
HasModelFor(ms, a, suffix) ==
    \E n \in DOMAIN ms :
        /\ ms[n].modelName = pascalCase(a.operationId) \o suffix
        /\ ms[n].usedInOperations = a.operationId

C12_RequestBodyModel ==
    \A r \in DOMAIN results :
        \A n \in DOMAIN results[r].apis :
            HasJsonBody(ValidEntries(api)[n].operation)
                <=> HasModelFor(results[r].models, results[r].apis[n], s_InData)

(***************************************************************************)
(* C13: an operation with a success (2xx) response carrying a JSON schema   *)
(* gets a model named PascalCase(operationId) + "OutData", for the          *)
(* operationId of its API record, built from the resolved schema of such a  *)
(* response; an operation without one gets no OutData model.                *)
(***************************************************************************)
BuiltFromSuccessSchema(model, operation, doc) ==
    \E n \in SuccessJson(operation) :
        /\ model.properties
               = extractSchemaProperties(
                     resolveSchema(operation.responses[n].json[1], doc), doc).properties
        /\ model.required
               = extractSchemaProperties(
                     resolveSchema(operation.responses[n].json[1], doc), doc).required

C13_OutDataOf(ms, a, operation, doc) ==
    IF SuccessJson(operation) # {}
    THEN /\ HasModelFor(ms, a, s_OutData)
         /\ BuiltFromSuccessSchema(
                ModelNamed(ms, pascalCase(a.operationId) \o s_OutData), operation, doc)
    ELSE ~HasModelFor(ms, a, s_OutData)

C13_ResponseModel ==
    \A r \in DOMAIN results :
        \A n \in DOMAIN results[r].apis :
            C13_OutDataOf(results[r].models, results[r].apis[n],
                          ValidEntries(api)[n].operation, api)
\* extractDocumentationData has returned and generateDocuments holds the
\* arrays; nothing changes them afterwards.
JustReturned == pc = "writeApis" /\ returned # <<>>

(***************************************************************************)
(* C14: after the operations, every schema name n of the document's schema  *)
(* table (components.schemas, or definitions) whose derived name            *)
(* PascalCase(n) + "Data" is not yet a seen model name adds exactly one     *)
(* model of that name, with usedInOperations absent and as description the  *)
(* schema's description or "<n> entity model" when it declares none; a      *)
(* schema whose derived name is already seen adds no record.                *)
(***************************************************************************)
TableOf(doc) ==
    IF doc.components # <<>> THEN doc.components[1].schemas
    ELSE IF doc.definitions # <<>> THEN doc.definitions[1]
    ELSE <<>>

DerivedName(name) == pascalCase(name) \o s_Data

OperationModelNames(ms) ==
    { ms[i].modelName : i \in { j \in DOMAIN ms : ms[j].usedInOperations # <<>> } }

\* Schema n of the table is the first candidate for its derived name.
Unseen(table, n, ms) ==
    /\ DerivedName(table[n][1]) \notin OperationModelNames(ms)
    /\ \A m \in 1..(n - 1) : DerivedName(table[m][1]) # DerivedName(table[n][1])

ExpectedDescription(name, schema) ==
    IF schema.description # <<>> THEN schema.description
    ELSE name \o <<" ","e","n","t","i","t","y"," ","m","o","d","e","l">>

\* The positions of the schemas that are first candidates for their name.
UnseenIn(derived, seen) ==
    { n \in DOMAIN derived :
        /\ derived[n] \notin seen
        /\ \A m \in 1..(n - 1) : derived[m] # derived[n] }

C14_StandaloneOf(table, ms) ==
    LET derived == [n \in DOMAIN table |-> DerivedName(table[n][1])]
        unseen == UnseenIn(derived, OperationModelNames(ms))
    IN  /\ \A n \in unseen :
               /\ Cardinality({ i \in DOMAIN ms : ms[i].modelName = derived[n] }) = 1
               /\ ModelNamed(ms, derived[n]).usedInOperations = <<>>
               /\ ModelNamed(ms, derived[n]).description
                      = ExpectedDescription(table[n][1], table[n][2])
        /\ Cardinality({ i \in DOMAIN ms : ms[i].usedInOperations = <<>> })
               = Cardinality(unseen)
        /\ \A i, j \in DOMAIN ms :
               (i < j /\ ms[i].usedInOperations = <<>>)
                   => ms[j].usedInOperations = <<>>

C14_StandaloneModels ==
    JustReturned => C14_StandaloneOf(TableOf(api), returned[1].models)

\* A result for a table with a schema that declares a description, one that
\* declares none, and one whose derived name was already seen.
C14_Witness ==
    /\ results # <<>>
    /\ \E a, b, c \in DOMAIN TableOf(api) :
           /\ Unseen(TableOf(api), a, results[1].models)
           /\ TableOf(api)[a][2].description # <<>>
           /\ Unseen(TableOf(api), b, results[1].models)
           /\ TableOf(api)[b][2].description = <<>>
           /\ ~Unseen(TableOf(api), c, results[1].models)
(***************************************************************************)
(* C15: when several model candidates of one synthesis derive the same      *)
(* model name (two operations, two responses of one operation, an           *)
(* operation's model and a component schema), the returned array holds      *)
(* exactly the candidate discovered first in traversal order, with its      *)
(* properties, required list and usedInOperations, and the synthesis        *)
(* returns.                                                                 *)
(***************************************************************************)
\* The candidates of one operation: query parameters, request body, responses.
CandidatesOf(operation, doc) ==
    (IF hasQueryParams(operation)
     THEN createQueryParamsModel(operation,
              IF operation.operationId # <<>> THEN operation.operationId
              ELSE s_unknown)
     ELSE <<>>)
    \o (IF operation.requestBody # <<>>
        THEN createRequestBodyModel(operation, doc) ELSE <<>>)
    \o createResponseModels(operation, doc)

RECURSIVE OperationCandidates(_, _, _)
OperationCandidates(entries, doc, n) ==
    IF n > Len(entries) THEN <<>>
    ELSE CandidatesOf(entries[n].operation, doc)
         \o OperationCandidates(entries, doc, n + 1)

SchemaCandidates(table, doc) ==
    [n \in DOMAIN table |->
        ModelOf(DerivedName(table[n][1]), extractSchemaProperties(table[n][2], doc),
                ExpectedDescription(table[n][1], table[n][2]), <<>>)]

\* Every model candidate of a document, in traversal order.
Candidates(doc) ==
    OperationCandidates(ValidEntries(doc), doc, 1)
    \o SchemaCandidates(TableOf(doc), doc)

FirstNamed(cands, modelName) ==
    cands[CHOOSE i \in DOMAIN cands :
              /\ cands[i].modelName = modelName
              /\ \A j \in 1..(i - 1) : cands[j].modelName # modelName]

SameContent(model, cand) ==
    /\ model.properties = cand.properties
    /\ model.required = cand.required
    /\ model.usedInOperations = cand.usedInOperations

C15_KeptFirst(ms, cands) ==
    \A i \in DOMAIN cands :
        /\ Cardinality({ m \in DOMAIN ms : ms[m].modelName = cands[i].modelName }) = 1
        /\ SameContent(ModelNamed(ms, cands[i].modelName),
                       FirstNamed(cands, cands[i].modelName))

C15_FirstCandidateKept ==
    JustReturned => C15_KeptFirst(returned[1].models, Candidates(api))

\* A result for a document with two operations of one operationId and
\* different JSON body schemas, an operation with two success JSON
\* responses of different schemas, and a component schema whose derived
\* name an operation's model already took.
C15_Witness ==
    /\ results # <<>>
    /\ \E a, b \in DOMAIN ValidEntries(api) :
           /\ a < b
           /\ ValidEntries(api)[a].operation.operationId # <<>>
           /\ ValidEntries(api)[a].operation.operationId
                  = ValidEntries(api)[b].operation.operationId
           /\ HasJsonBody(ValidEntries(api)[a].operation)
           /\ HasJsonBody(ValidEntries(api)[b].operation)
           /\ ValidEntries(api)[a].operation.requestBody
                  # ValidEntries(api)[b].operation.requestBody
    /\ \E a \in DOMAIN ValidEntries(api) :
           /\ ValidEntries(api)[a].operation.operationId # <<>>
           /\ \E x, y \in SuccessJson(ValidEntries(api)[a].operation) :
                  ValidEntries(api)[a].operation.responses[x].json
                      # ValidEntries(api)[a].operation.responses[y].json
    /\ \E n \in DOMAIN TableOf(api) :
           DerivedName(TableOf(api)[n][1]) \in OperationModelNames(results[1].models)
    /\ Len(Candidates(api)) > Len(results[1].models)
(***************************************************************************)
(* C16: the model at 0-based position i of a returned array has sNo = i+1;  *)
(* the models stand in discovery order (operations in path-table order,     *)
(* within an operation query parameters, request body, responses, then the  *)
(* standalone schemas); and no number is assigned before the standalone     *)
(* models were appended.                                                    *)
(***************************************************************************)
NamesInOrder(cands) == [i \in DOMAIN cands |-> cands[i].modelName]

\* Where a name first stands in the list of candidate names.
FirstIndex(names, modelName) ==
    CHOOSE i \in DOMAIN names :
        /\ names[i] = modelName
        /\ \A j \in 1..(i - 1) : names[j] # modelName

C16_Numbered(ms, names) ==
    /\ \A i \in DOMAIN ms : ms[i].sNo = i
    /\ \A i \in 1..(Len(ms) - 1) :
           FirstIndex(names, ms[i].modelName) < FirstIndex(names, ms[i + 1].modelName)

C16_SequenceNumbers ==
    /\ pc \in {"paths", "number"} => \A n \in DOMAIN models : models[n].sNo = 0
    /\ JustReturned =>
           C16_Numbered(returned[1].models, NamesInOrder(Candidates(api)))

\* A result with operation models and standalone models, one candidate
\* having been dropped.
C16_Witness ==
    /\ results # <<>>
    /\ Len(results[1].models) >= 4
    /\ results[1].models[1].usedInOperations # <<>>
    /\ results[1].models[Len(results[1].models)].usedInOperations = <<>>
    /\ Len(Candidates(api)) > Len(results[1].models)

(***************************************************************************)
(* C17: a returned apis array holds exactly one record for each             *)
(* (path, method key) entry of the paths table whose key is, ignoring case, *)
(* GET, POST, PUT, PATCH or DELETE, in traversal order with sNo = 1..n, and *)
(* neither a record nor a model for any other key of a path item.           *)
(***************************************************************************)
IsDocumentedEntry(e) ==
    toUpperCase(e.method)
        \in { <<"G","E","T">>, <<"P","O","S","T">>, <<"P","U","T">>,
              <<"P","A","T","C","H">>, <<"D","E","L","E","T","E">> }

DocumentedEntries(doc) == SelectSeq(Entries(doc), IsDocumentedEntry)

\* names: the model names the operations of these entries give rise to.
C17_RecordsOf(as, ms, entries, names) ==
    /\ Len(as) = Len(entries)
    /\ \A n \in DOMAIN as :
           /\ as[n].sNo = n
           /\ as[n].endpoint = entries[n].path
           /\ toUpperCase(as[n].method) = toUpperCase(entries[n].method)
    /\ \A i \in DOMAIN ms : ms[i].usedInOperations # <<>> => ms[i].modelName \in names

C17_ForEntries(entries) ==
    C17_RecordsOf(returned[1].apis, returned[1].models, entries,
                  ModelNames(OperationCandidates(entries, api, 1)))

C17_OneRecordPerVerb ==
    JustReturned => C17_ForEntries(DocumentedEntries(api))

\* A result for a path item with an upper-case verb, a head operation and a
\* parameters key.
C17_Witness ==
    /\ results # <<>>
    /\ results[1].apis # <<>>
    /\ \E a, b, c \in DOMAIN Entries(api) :
           /\ Entries(api)[a].method = <<"G","E","T">>
           /\ Entries(api)[b].method = <<"h","e","a","d">>
           /\ Entries(api)[c].method = <<"p","a","r","a","m","e","t","e","r","s">>

(***************************************************************************)
(* C18: the method of every returned API record is one of GET, POST, PUT,   *)
(* PATCH, DELETE, whatever the letter case of the method key in the paths   *)
(* table.                                                                   *)
(***************************************************************************)
C18_MethodEnumerated ==
    \A r \in DOMAIN results :
        \A n \in DOMAIN results[r].apis :
            results[r].apis[n].method
                \in { <<"G","E","T">>, <<"P","O","S","T">>, <<"P","U","T">>,
                      <<"P","A","T","C","H">>, <<"D","E","L","E","T","E">> }
(***************************************************************************)
(* C19: when extractDocumentationData fails at any point of the traversal,  *)
(* no apis or models array is returned and generateDocuments has written    *)
(* neither apis.xlsx nor models.xlsx; a spreadsheet is written only after   *)
(* both complete arrays were returned, and holds the returned rows.         *)
(***************************************************************************)
C19_Complete(arrays, doc) ==
    /\ Len(arrays.apis) = Len(DocumentedEntries(doc))
    /\ \A n \in DOMAIN arrays.models : arrays.models[n].sNo = n

C19_AllOrNothing ==
    /\ thrown = "TypeError" => returned = <<>> /\ written = <<>>
    /\ pc \in {"paths", "number"} => returned = <<>> /\ written = <<>>
    /\ written # <<>> =>
           /\ returned # <<>>
           /\ C19_Complete(returned[1], api)
           /\ written[1] = <<"apis.xlsx", returned[1].apis>>
           /\ Len(written) > 1 => written = <<written[1],
                                              <<"models.xlsx", returned[1].models>>>>

\* The traversal failed after an API record and a model name had been
\* recorded.
C19_Witness ==
    /\ thrown = "TypeError"
    /\ apis # <<>>
    /\ seenModels # {}
    /\ pc = "idle"

(***************************************************************************)
(* C20: config set <key> <value> succeeds and persists the value for every  *)
(* key the documentation names (outputDirectory, defaultTemplate,           *)
(* swaggerUrl, templatePath, fileNamingConvention); it does not end in an   *)
(* "Unknown configuration key" error.                                       *)
(***************************************************************************)
C20_DocumentedKeysSettable ==
    (command # <<>> /\ command[1] \in DocumentedKeys) =>
        /\ outcome = "updated"
        /\ configFile # <<>>
        /\ command[1] \in DOMAIN configFile[1]
        /\ configFile[1][command[1]] = command[2]

(***************************************************************************)
(* C21: performAnalysis returns an analysis for the record sets it is       *)
(* given, and its issues hold a 'Duplicate operation IDs found' entry       *)
(* naming X exactly when two or more API records have the non-empty         *)
(* operationId X, and a 'Duplicate model names found' entry naming X        *)
(* exactly when two or more model records have the non-empty modelName X.   *)
(***************************************************************************)
Names(issues, text) ==
    UNION { Range(issues[n].about) : n \in { m \in DOMAIN issues : issues[m].text = text } }

Repeated(values) ==
    { values[a] : a \in { b \in DOMAIN values :
                             /\ values[b] # <<>>
                             /\ \E c \in DOMAIN values : c # b /\ values[c] = values[b] } }

C21_Reported(docs, issues) ==
    /\ Names(issues, "Duplicate operation IDs found")
           = Repeated([n \in DOMAIN docs.apis |-> docs.apis[n].operationId])
    /\ Names(issues, "Duplicate model names found")
           = Repeated([n \in DOMAIN docs.models |-> docs.models[n].modelName])

C21_DuplicatesReported ==
    /\ documentation # <<>> <=> analysis # <<>>
    /\ analysis # <<>> => C21_Reported(documentation[1], analysis[1].issues)

\* getItems, listWidgets, getItems: the repetition is not of a neighbour, and
\* two rows without a model name are both read as 'undefined'.
C21_Witness ==
    /\ analysis # <<>>
    /\ [n \in DOMAIN documentation[1].apis |-> documentation[1].apis[n].operationId]
           = <<id_getItems, id_listWidgets, id_getItems>>
    /\ Names(analysis[1].issues, "Duplicate operation IDs found") = {id_getItems}
    /\ Names(analysis[1].issues, "Duplicate model names found") = {s_undefined}

(***************************************************************************)
(* C30: the analysis of the files a synthesis wrote, read back unmodified,  *)
(* reports 'Model name should follow PascalCase and end with 'Data'' for    *)
(* none of the models, whatever their kind.                                 *)
(***************************************************************************)
C30_NamingRuleMet ==
    analysis # <<>> =>
        \A n \in DOMAIN analysis[1].issues :
            analysis[1].issues[n].text
                # "Model name should follow PascalCase and end with 'Data'"

(***************************************************************************)
(* C22: of the names data, records, items, results, in this order, the      *)
(* first that the resolved response schema declares as an array with items  *)
(* decides the record schema, whatever the order of declaration and         *)
(* whatever stands under an earlier name; extractRecordSchema returns the   *)
(* resolved items of that property, the <Op>RecordData model is built from  *)
(* it, and there is no such model when no name qualifies.                   *)
(***************************************************************************)
C22_Priority == <<f_data, f_records, f_items, f_results>>

C22_Qualifies(schema, name) ==
    \E n \in DOMAIN schema.properties :
        /\ schema.properties[n][1] = name
        /\ schema.properties[n][2].type = "array"
        /\ schema.properties[n][2].items # <<>>

\* 0 or 1 schema
C22_Expected(schema, doc) ==
    LET qualifying == { n \in DOMAIN C22_Priority : C22_Qualifies(schema, C22_Priority[n]) }
    IN  IF qualifying = {} THEN <<>>
        ELSE LET first == CHOOSE n \in qualifying : \A m \in qualifying : n <= m
                 property == schema.properties[
                                 CHOOSE n \in DOMAIN schema.properties :
                                     schema.properties[n][1] = C22_Priority[first]][2]
             IN  <<resolveSchema(property.items[1], doc)>>

\* The one operation of an envelope document and its resolved response schema.
IsEnvelopeDoc(doc) ==
    /\ Len(Entries(doc)) = 1
    /\ Entries(doc)[1].operation.operationId = id_pageWidgets
    /\ Len(Entries(doc)[1].operation.responses) = 1
    /\ Entries(doc)[1].operation.responses[1].json # <<>>

EnvelopeOf(doc) == resolveSchema(Entries(doc)[1].operation.responses[1].json[1], doc)

n_PageWidgetsRecordData ==
    <<"P","a","g","e","W","i","d","g","e","t","s","R","e","c","o","r","d","D","a","t","a">>

C22_RecordModel(ms, envelope, expected, doc) ==
    /\ extractRecordSchema(envelope, doc) = expected
    /\ HasModel(ms, n_PageWidgetsRecordData) <=> expected # <<>>
    /\ expected # <<>> =>
           LET model == ModelNamed(ms, n_PageWidgetsRecordData)
               extracted == extractSchemaProperties(expected[1], doc)
           IN  /\ model.properties = extracted.properties
               /\ model.required = extracted.required

C22_RecordSchemaByPriority ==
    (JustReturned /\ IsEnvelopeDoc(api)) =>
        C22_RecordModel(returned[1].models, EnvelopeOf(api),
                        C22_Expected(EnvelopeOf(api), api), api)

\* results, data and items are declared in this order, data is a string: the
\* record model is built from the items of items.
C22_Witness ==
    /\ JustReturned
    /\ IsEnvelopeDoc(api)
    /\ Keys(EnvelopeOf(api).properties) = <<f_totalCount, f_results, f_data, f_items>>
    /\ Get(EnvelopeOf(api).properties, f_data).type = "string"
    /\ Entries(api)[1].operation.responses[1].json[1].ref # <<>>
    /\ HasModel(returned[1].models, n_PageWidgetsRecordData)
    /\ ModelNamed(returned[1].models, n_PageWidgetsRecordData).properties
           = extractSchemaProperties(SchemaA, api).properties

(***************************************************************************)
(* C23: resolveSchema returns the node itself when it has no $ref or when   *)
(* a segment of its pointer is missing from the document, and otherwise     *)
(* the node the pointer leads to, as it stands there, a $ref it carries     *)
(* not followed.                                                            *)
(***************************************************************************)
IsPrefix(prefix, s) ==
    Len(prefix) <= Len(s) /\ SubSeq(s, 1, Len(prefix)) = prefix

After(prefix, s) == SubSeq(s, Len(prefix) + 1, Len(s))

InComponents == <<"#", "/">> \o s_components \o <<"/">> \o s_schemas \o <<"/">>

InDefinitions == <<"#", "/">> \o s_definitions \o <<"/">>

\* The schema of the document the pointer names, 0 or 1.
C23_Pointed(pointer, doc) ==
    IF /\ IsPrefix(InComponents, pointer)
       /\ doc.components # <<>>
       /\ HasKey(doc.components[1].schemas, After(InComponents, pointer))
    THEN <<Get(doc.components[1].schemas, After(InComponents, pointer))>>
    ELSE IF /\ IsPrefix(InDefinitions, pointer)
            /\ doc.definitions # <<>>
            /\ HasKey(doc.definitions[1], After(InDefinitions, pointer))
    THEN <<Get(doc.definitions[1], After(InDefinitions, pointer))>>
    ELSE <<>>

C23_Resolved(node, doc) ==
    IF node.ref = <<>> \/ C23_Pointed(node.ref, doc) = <<>> THEN node
    ELSE C23_Pointed(node.ref, doc)[1]

\* The JSON schemas of the responses of the document's operations.
ResponseNodesOf(entries) ==
    UNION { { entries[n].operation.responses[r].json[1]
              : r \in { q \in DOMAIN entries[n].operation.responses :
                          entries[n].operation.responses[q].json # <<>> } }
            : n \in DOMAIN entries }

ResponseNodes(doc) == ResponseNodesOf(ValidEntries(doc))

C23_ResolvesOneLevel ==
    JustReturned =>
        \A node \in ResponseNodes(api) :
            resolveSchema(node, api) = C23_Resolved(node, api)

(***************************************************************************)
(* C24: extractSchemaProperties applied to a node that is a $ref to a       *)
(* schema S of the document yields the properties and the required list of  *)
(* S; the standalone model of a component schema that is only a $ref to     *)
(* another component schema carries those of the schema referred to.        *)
(***************************************************************************)
C24_OfReferred(schema, referred, model, doc) ==
    /\ extractSchemaProperties(schema, doc) = extractSchemaProperties(referred, doc)
    /\ model.properties = extractSchemaProperties(referred, doc).properties
    /\ model.required = extractSchemaProperties(referred, doc).required

C24_Standalone(table, ms, doc) ==
    \A n \in DOMAIN table :
        (/\ table[n][2].ref # <<>>
         /\ C23_Pointed(table[n][2].ref, doc) # <<>>
         /\ HasModel(ms, DerivedName(table[n][1]))
         /\ ModelNamed(ms, DerivedName(table[n][1])).usedInOperations = <<>>)
        => C24_OfReferred(table[n][2], C23_Pointed(table[n][2].ref, doc)[1],
                          ModelNamed(ms, DerivedName(table[n][1])), doc)

C24_ArgumentResolved ==
    JustReturned => C24_Standalone(SchemaTable(api), returned[1].models, api)

(***************************************************************************)
(* C25: when a schema of the document leads back to itself through object   *)
(* properties or array items and its expansion is begun, the expansion      *)
(* passes every bound on its depth, nothing stopping it at a schema it is   *)
(* already expanding: the extraction does not complete and synthesis        *)
(* returns no result.                                                       *)
(***************************************************************************)
RECURSIVE RefsBelow(_)
RECURSIVE RefsUnder(_)

\* The pointers met when the members of an object schema are expanded.
RefsBelow(schema) ==
    UNION { RefsUnder(schema.properties[n][2]) : n \in DOMAIN schema.properties }

\* The pointers met when a property schema is expanded.
RefsUnder(node) ==
    IF node.ref # <<>> THEN {node.ref}
    ELSE IF node.type = "array" /\ node.items # <<>> THEN RefsUnder(node.items[1])
    ELSE IF node.type = "object" THEN RefsBelow(node)
    ELSE {}

\* The object schemas of the table one expansion step leads to from a name.
StepsFrom(table, name) ==
    { table[m][1] : m \in { q \in DOMAIN table :
                               /\ table[q][2].type = "object"
                               /\ (InComponents \o table[q][1])
                                      \in RefsBelow(Get(table, name)) } }

RECURSIVE ReachedFrom(_, _, _)
ReachedFrom(table, names, steps) ==
    IF steps = 0 THEN names
    ELSE ReachedFrom(table,
                     names \cup UNION { StepsFrom(table, name) : name \in names },
                     steps - 1)

LeadsBackToItself(table, name) ==
    name \in ReachedFrom(table, StepsFrom(table, name), Len(table))

\* The names of the model kinds of the operations with a declared operationId.
DeclaredModelNames(entries) ==
    UNION { { pascalCase(entries[n].operation.operationId) \o suffix
              : suffix \in {s_QueryParams, s_InData, s_OutData, s_RecordData} }
            : n \in { m \in DOMAIN entries : entries[m].operation.operationId # <<>> } }

\* The schemas that lead back to themselves and that the standalone step expands.
ExpandedCycles(doc) ==
    IF doc.components = <<>> THEN {}
    ELSE { n \in DOMAIN doc.components[1].schemas :
             /\ LeadsBackToItself(doc.components[1].schemas,
                                  doc.components[1].schemas[n][1])
             /\ DerivedName(doc.components[1].schemas[n][1])
                    \notin DeclaredModelNames(ValidEntries(doc)) }

C25_NoResult(doc, cycles) ==
    /\ \A n \in cycles : Overflows(doc.components[1].schemas[n][2], doc)
    /\ pc \in {"idle", "paths"}
    /\ returned = <<>>
    /\ results = <<>>
    /\ written = <<>>

RECURSIVE RefsIn(_)
RefsIn(schema) ==
    (IF schema.ref # <<>> THEN {schema.ref} ELSE {})
    \cup UNION { RefsIn(schema.properties[n][2]) : n \in DOMAIN schema.properties }
    \cup UNION { RefsIn(schema.items[n]) : n \in DOMAIN schema.items }
    \cup UNION { RefsIn(schema.allOf[n]) : n \in DOMAIN schema.allOf }

PointsTo(table, name) ==
    { table[m][1] : m \in { q \in DOMAIN table :
                               \E prefix \in {InComponents, InDefinitions} :
                                   (prefix \o table[q][1]) \in RefsIn(Get(table, name)) } }

RECURSIVE PointedFrom(_, _, _)
PointedFrom(table, names, steps) ==
    IF steps = 0 THEN names
    ELSE PointedFrom(table,
                     names \cup UNION { PointsTo(table, name) : name \in names },
                     steps - 1)

C26_Acyclic(doc) ==
    \A n \in DOMAIN SchemaTable(doc) :
        SchemaTable(doc)[n][1]
            \notin PointedFrom(SchemaTable(doc),
                               PointsTo(SchemaTable(doc), SchemaTable(doc)[n][1]),
                               Len(SchemaTable(doc)))

C26_AcyclicReturns ==
    C26_Acyclic(api) => thrown \notin {"TypeError", "RangeError"}

(***************************************************************************)
(* C27: the pathParams of an API record has exactly one entry per distinct  *)
(* {name} segment of the path and is absent exactly when the path has no    *)
(* such segment; every entry has required = TRUE; an entry has the mapped   *)
(* type and the description of the parameter declared with that name and    *)
(* location path, and is { type: string, required: true } when none is      *)
(* declared.                                                                *)
(***************************************************************************)
IsSegmentOf(path, a, b) ==
    /\ a <= b
    /\ path[a - 1] = "/"
    /\ b = Len(path) \/ path[b + 1] = "/"
    /\ \A q \in a..b : path[q] # "/"

IsTemplate(segment) ==
    /\ Len(segment) >= 3
    /\ segment[1] = "{"
    /\ segment[Len(segment)] = "}"
    /\ \A q \in 2..(Len(segment) - 1) : segment[q] \notin {"{", "}"}

SegmentNames(path) ==
    { SubSeq(path, a + 1, b - 1) :
        <<a, b>> \in { ab \in (2..Len(path)) \X (2..Len(path)) :
                         /\ IsSegmentOf(path, ab[1], ab[2])
                         /\ IsTemplate(SubSeq(path, ab[1], ab[2])) } }

\* The parameters declared for an operation: its own, then those of its path item.
PathLevelParameters(doc, path) ==
    LET items == { p \in DOMAIN doc.paths : doc.paths[p].path = path }
        item == doc.paths[CHOOSE p \in items : TRUE].item
        level == { q \in DOMAIN item : item[q].method = m_parameters }
    IN  IF level = {} THEN <<>> ELSE item[CHOOSE q \in level : TRUE].operation

DeclaredPathParams(doc, e, name) ==
    SelectSeq(e.operation.parameters \o PathLevelParameters(doc, e.path),
              LAMBDA p : p.name = name /\ p["in"] = "path")

C27_EntryAsDeclared(entry, declared) ==
    /\ entry.required
    /\ IF declared # <<>>
       THEN /\ entry.type = getParameterType(declared[1])
            /\ entry.description = declared[1].description
       ELSE /\ entry.type = "string"
            /\ entry.description = <<>>

C27_PathParamsOf(a, e, doc) ==
    /\ Len(a.pathParams) = Cardinality(SegmentNames(e.path))
    /\ { a.pathParams[q][1] : q \in DOMAIN a.pathParams } = SegmentNames(e.path)
    /\ \A q \in DOMAIN a.pathParams :
           C27_EntryAsDeclared(a.pathParams[q][2],
                               DeclaredPathParams(doc, e, a.pathParams[q][1]))

C27_PathParams ==
    \A r \in DOMAIN results :
        \A n \in DOMAIN results[r].apis :
            C27_PathParamsOf(results[r].apis[n], ValidEntries(api)[n], api)

(***************************************************************************)
(* C28: during a synthesis, after each processed operation and after the    *)
(* standalone step, the set of seen model names is exactly the set of       *)
(* modelName values of the models accumulated so far, and no two of the     *)
(* accumulated models have the same name.                                   *)
(***************************************************************************)
C28_SeenIsAccumulated ==
    pc \in {"paths", "number"}
        => /\ seenModels = ModelNames(models)
           /\ Cardinality(seenModels) = Len(models)

\* Two operations with the same declared operationId and a request body each
\* were processed: the second one's body model was a seen name.
C28_Witness ==
    /\ pc = "number"
    /\ Len(models) >= 3
    /\ \E i, j \in DOMAIN ValidEntries(api) :
           /\ i < j
           /\ ValidEntries(api)[i].operation.operationId # <<>>
           /\ ValidEntries(api)[i].operation.operationId
                  = ValidEntries(api)[j].operation.operationId
           /\ ValidEntries(api)[i].operation.requestBody # <<>>
           /\ ValidEntries(api)[j].operation.requestBody # <<>>

(***************************************************************************)
(* C29: when the returned models hold the record model                      *)
(* PascalCase(operationId) + "RecordData" of an operation, the API record   *)
(* of that operation has isPaginated = TRUE, whether the response schema    *)
(* is given inline or through a $ref.                                       *)
(***************************************************************************)
C29_HasRecordModel(ms, operationId) ==
    \E m \in DOMAIN ms :
        /\ ms[m].modelName = pascalCase(operationId) \o s_RecordData
        /\ ms[m].usedInOperations = operationId

C29_FlagAgreesWithRecordModel ==
    \A r \in DOMAIN results :
        \A n \in DOMAIN results[r].apis :
            C29_HasRecordModel(results[r].models, results[r].apis[n].operationId)
                => results[r].apis[n].isPaginated

==========================================================================
